---- MODULE Spec2Model ----
(***************************************************************************)
(* Playlist Intelligence (yt-extension): the background service worker     *)
(* (message router, sync pipeline, reorder handler), the quota-governed    *)
(* YouTube API client and the delta reconciler, as a state machine.        *)
(*                                                                         *)
(* Every `await` of the source is a suspension point: a handler advances   *)
(* by one action per resumed continuation.  Spec handles one message at a  *)
(* time (the single caller the design assumes); SpecOverlap interleaves    *)
(* the continuations of a sync run and of ranking requests.  The content   *)
(* script of a YouTube tab (save-modal observer, DOM reordering) is the    *)
(* variable tab and the specifications SpecContent and SpecDom.            *)
(***************************************************************************)
EXTENDS Integers, Sequences, FiniteSets, TLC

VARIABLES
  store,            \* chrome.storage.local
  now,              \* wall clock (Date.now()), in minutes
  remotePlaylists,  \* remote catalog: the user's playlists, in listing order
  remoteItems,      \* remote catalog: playlist id -> its video ids, in order
  pc,               \* handler position of the sync run and the ranking request
  call,             \* the apiCall each handler has in flight
  auth,             \* the getAuthToken each handler has in flight
  sy,               \* locals of handleSync
  ro,               \* locals of handleReorder
  result,           \* the last response sent (none while a newer message is pending)
  progress,         \* SYNC_PROGRESS percentages sent by the current sync run
  hist,             \* observers: counts of requests, responses, runs
  tab               \* the content script of one tab and the save modal's list

vars == <<store, now, remotePlaylists, remoteItems, pc, call, auth, sy, ro,
          result, progress, hist, tab>>

-----------------------------------------------------------------------------
(* Bounds of the model *)

MaxSyncRuns == 2        \* SYNC_START messages handled, one caller at a time
MaxOverlapSyncRuns == 1 \* SYNC_START messages handled, interleaved handlers
MaxReorderRuns == 1     \* GET_REORDERED_PLAYLISTS messages handled
MaxRemoteChanges == 1   \* edits of the remote catalog
MaxTicks == 1           \* advances of the clock
MaxItems == 3           \* videos in one remote playlist
MaxListed == 8          \* playlists of a listing, for the progress percentages
MaxVideos == 5          \* videos of an item set given to the statistics engine
MaxRankPlaylists == 3   \* playlists given to the ranking engine
MaxRankVideos == 2      \* videos of each of them
MaxRankQueries == 2     \* ranking requests over one stored bundle
MaxPagingRuns == 1      \* sync runs over the paged catalog
MaxBatchIds == 101      \* ids given to getVideoCategoryIds
MaxResyncRuns == 2      \* sync runs over a store that already holds a bundle
MaxRequestRuns == 2     \* ranking requests over a store that already holds a bundle
MaxTokenAge == 2        \* minutes a cached token is before or past its expiry
MaxInvocations == 3     \* handleModalOpen invocations that pass the guard
MaxNavigations == 1     \* yt-navigate-finish events
MaxDomItems == 3        \* items of the save modal's list
MaxRanked == 2          \* playlists of a ranking given to reorderDOM
MaxApiErrors == 1       \* requests the remote answers with a non-success status
PageLimit == 2          \* items the remote puts on one page (at most maxResults)

(* Program constants *)

DAILY_LIMIT == 10000
SAFETY_MARGIN == 500
MaxResults == 50        \* maxResults of playlists.list / playlistItems.list
BatchSize == 50         \* ids per videos.list call
TokenBuffer == 1        \* 60000 ms taken off a token's lifetime, in minutes
DefaultExpiresIn == 60  \* expires_in "3600" seconds, in minutes
MinutesPerDay == 1440   \* todayKey() changes every 24 h of UTC time

-----------------------------------------------------------------------------
(* Values *)

Procs == {"sync", "reorder"}
Pids == {"p1", "p2"}
Vids == {"v1", "v2", "v3"}
PrivatePids == {"p2"}            \* listed with mine=true only
Null == ""                       \* null / undefined / absent string

BundleKeys == {"globalStats", "playlistStats", "playlistMeta",
               "playlistCategories", "lastSync"}

RECURSIVE SeqSum(_)
SeqSum(s) == IF s = <<>> THEN 0 ELSE Head(s) + SeqSum(Tail(s))

Range(s) == {s[i] : i \in 1..Len(s)}

Min(a, b) == IF a < b THEN a ELSE b

CeilDiv(a, b) == (a + b - 1) \div b

\* m with key k set to v (insertion or overwrite)
Put(m, k, v) == [x \in DOMAIN m \cup {k} |-> IF x = k THEN v ELSE m[x]]

EmptyMap == [x \in {} |-> Null]

-----------------------------------------------------------------------------
(* lib/category-map.js *)

\* the entries of CATEGORY_MAP the model's videos use ("23" and "34" share a label)
CategoryIds == {"10", "20", "23", "34"}

CATEGORY_MAP ==
  [c \in CategoryIds |->
     CASE c = "10" -> "Music"
       [] c = "20" -> "Gaming"
       [] c = "23" -> "Comedy"
       [] c = "34" -> "Comedy"]

\* the number a category id string reads as (keys of a JS object that are
\* integers are enumerated in ascending numeric order)
CategoryNumber ==
  [c \in CategoryIds |->
     CASE c = "10" -> 10 [] c = "20" -> 20 [] c = "23" -> 23 [] c = "34" -> 34]

getCategoryLabel(categoryId) ==
  IF categoryId \in DOMAIN CATEGORY_MAP THEN CATEGORY_MAP[categoryId] ELSE "Unknown"

-----------------------------------------------------------------------------
(* The remote catalog (YouTube Data API v3 as the client sees it) *)

\* snippet.categoryId of a video; v3 is a deleted video videos.list no longer returns
RemoteCategory(v) == CASE v = "v1" -> "10" [] v = "v2" -> "20" [] OTHER -> Null

RemoteHasVideo(v) == RemoteCategory(v) # Null

\* items of a videos.list response for the ids asked
VideosResponse(ids) == SelectSeq(ids, RemoteHasVideo)

\* playlists.list with mine=true: all playlists; with channelId: the public ones
IsPublic(p) == p \notin PrivatePids
ListedPlaylists(mine) ==
  IF mine THEN remotePlaylists ELSE SelectSeq(remotePlaylists, IsPublic)

\* the list a paginated endpoint serves
EndpointList(ep, pid) ==
  CASE ep = "playlistsMine" -> ListedPlaylists(TRUE)
    [] ep = "playlistsChannel" -> ListedPlaylists(FALSE)
    [] ep = "playlistItems" ->
         IF pid \in Range(remotePlaylists) THEN remoteItems[pid] ELSE <<>>
    [] OTHER -> <<>>

-----------------------------------------------------------------------------
(* chrome.storage.local *)

StoreKeys == {"apiKey", "channelId", "oauthClientId", "oauthToken",
              "oauthTokenExpiry", "oauthConnected", "apiUsage"} \cup BundleKeys

EmptyGlobalStats == [totalPlaylists |-> 0, totalVideos |-> 0,
                     categoryDistribution |-> <<>>]

EmptyStore ==
  [keys |-> {}, apiKey |-> Null, channelId |-> Null, oauthClientId |-> Null,
   oauthToken |-> Null, oauthTokenExpiry |-> 0,
   apiUsage |-> [date |-> 0, count |-> 0],
   globalStats |-> EmptyGlobalStats, playlistStats |-> <<>>,
   playlistMeta |-> EmptyMap, playlistCategories |-> EmptyMap, lastSync |-> 0]

\* chrome.storage.local.set(items): items is a function field -> value
StoreSet(st, items) ==
  [f \in DOMAIN st |->
     IF f = "keys" THEN st.keys \cup DOMAIN items
     ELSE IF f \in DOMAIN items THEN items[f] ELSE st[f]]

\* chrome.storage.local.remove(keys)
StoreRemove(st, ks) ==
  [f \in DOMAIN st |->
     IF f = "keys" THEN st.keys \ ks
     ELSE IF f \in ks THEN EmptyStore[f] ELSE st[f]]

Has(st, k) == k \in st.keys

\* data.k || null after chrome.storage.local.get([k])
StoreGet(k) == IF Has(store, k) THEN store[k] ELSE EmptyStore[k]

-----------------------------------------------------------------------------
(* lib/youtube-api.js: API usage tracking *)

todayKey == now \div MinutesPerDay

getApiUsage ==
  LET usage == IF Has(store, "apiUsage") THEN store.apiUsage
               ELSE [date |-> todayKey, count |-> 0]
  IN IF usage.date # todayKey THEN [date |-> todayKey, count |-> 0] ELSE usage

\* variant: the count is overwritten with n instead of raised by n
IncrementedUsage_Overwrite(usage, n) == [date |-> todayKey, count |-> n]

\* the usage record incrementApiUsage writes, from the one it read
IncrementedUsage(usage, n) == [date |-> todayKey, count |-> usage.count + n]

QuotaLimit == DAILY_LIMIT - SAFETY_MARGIN

\* variant: the guard compares with the daily limit, without the margin
QuotaBlocked_NoMargin(usage) == usage.count >= DAILY_LIMIT

\* variant: the guard lets the call at the limit through
QuotaBlocked_Strict(usage) == usage.count > QuotaLimit

QuotaBlocked(usage) == usage.count >= QuotaLimit

-----------------------------------------------------------------------------
(* lib/playlist-stats.js *)

\* a JS object with insertion-ordered string keys: a sequence of [k, v] pairs
OLookup(m, k) == (CHOOSE i \in 1..Len(m) : m[i].k = k)
OHas(m, k) == \E i \in 1..Len(m) : m[i].k = k
OGet(m, k) == m[OLookup(m, k)].v
OPut(m, k, v) ==
  IF OHas(m, k) THEN [m EXCEPT ![OLookup(m, k)] = [k |-> k, v |-> v]]
  ELSE Append(m, [k |-> k, v |-> v])
OKeys(m) == {m[i].k : i \in 1..Len(m)}
OValues(m) == [i \in 1..Len(m) |-> m[i].v]

\* m[k] = (m[k] || 0) + n
OAdd(m, k, n) == OPut(m, k, (IF OHas(m, k) THEN OGet(m, k) ELSE 0) + n)

\* the keys of the frequency object in Object.entries order: integer keys
\* ascending, then "unknown"
RECURSIVE FreqKeyOrder(_)
FreqKeyOrder(keys) ==
  IF keys = {} THEN <<>>
  ELSE LET nums == keys \cap CategoryIds
       IN IF nums = {} THEN <<"unknown">>
          ELSE LET lo == CHOOSE c \in nums :
                           \A d \in nums : CategoryNumber[c] <= CategoryNumber[d]
               IN <<lo>> \o FreqKeyOrder(keys \ {lo})

\* v.categoryId || "unknown"
FreqKey(entry) == IF entry.categoryId = Null THEN "unknown" ELSE entry.categoryId

\* variant: videos without a categoryId are left out of the count
CategoryFreq_SkipUnknown(videoCategories) ==
  LET known == {v \in DOMAIN videoCategories : videoCategories[v].categoryId # Null}
      keys == {videoCategories[v].categoryId : v \in known}
  IN [c \in keys |->
        Cardinality({v \in known : videoCategories[v].categoryId = c})]

CategoryFreq(videoCategories) ==
  LET keys == {FreqKey(videoCategories[v]) : v \in DOMAIN videoCategories}
  IN [c \in keys |->
        Cardinality({v \in DOMAIN videoCategories : FreqKey(videoCategories[v]) = c})]

\* the loop "if (count > dominantCount)" over Object.entries(freq)
RECURSIVE DominantScan(_, _, _)
DominantScan(order, freq, best) ==
  IF order = <<>> THEN best
  ELSE LET cid == Head(order)
       IN DominantScan(Tail(order), freq,
            IF freq[cid] > best.count THEN [id |-> cid, count |-> freq[cid]]
            ELSE best)

\* variant: the thresholds are exclusive
FocusLabel_Exclusive(dominantCount, totalVideos) ==
  IF 5 * dominantCount > 4 * totalVideos THEN "Highly Focused"
  ELSE IF 2 * dominantCount > totalVideos THEN "Focused"
  ELSE "Mixed"

\* dominantRatio >= 0.8, >= 0.5 with dominantRatio = dominantCount / totalVideos
FocusLabel(dominantCount, totalVideos) ==
  IF 5 * dominantCount >= 4 * totalVideos THEN "Highly Focused"
  ELSE IF 2 * dominantCount >= totalVideos THEN "Focused"
  ELSE "Mixed"

\* the readable frequency object label -> count, filled in Object.entries(freq)
\* order
RECURSIVE LabelFreq(_, _, _)
LabelFreq(order, freq, acc) ==
  IF order = <<>> THEN acc
  ELSE LabelFreq(Tail(order), freq,
                 OAdd(acc, getCategoryLabel(Head(order)), freq[Head(order)]))

EmptyStats ==
  [totalVideos |-> 0, categoryFrequency |-> <<>>, dominantCategory |-> Null,
   dominantCategoryId |-> Null, dominantCount |-> 0,
   dominantRatio |-> [num |-> 0, den |-> 1], uniqueCategories |-> 0,
   focusLabel |-> "Empty"]

computePlaylistStats(videoCategories) ==
  LET totalVideos == Cardinality(DOMAIN videoCategories)
      freq == CategoryFreq(videoCategories)
      dom == DominantScan(FreqKeyOrder(DOMAIN freq), freq, [id |-> Null, count |-> 0])
  IN IF totalVideos = 0 THEN EmptyStats
     ELSE [totalVideos |-> totalVideos,
           categoryFrequency |-> LabelFreq(FreqKeyOrder(DOMAIN freq), freq, <<>>),
           dominantCategory |-> getCategoryLabel(dom.id),
           dominantCategoryId |-> dom.id,
           dominantCount |-> dom.count,
           dominantRatio |-> [num |-> dom.count, den |-> totalVideos],
           uniqueCategories |-> Cardinality(DOMAIN freq),
           focusLabel |-> FocusLabel(dom.count, totalVideos)]

\* one playlist's frequency table folded into the global one
RECURSIVE FoldFreq(_, _)
FoldFreq(entries, acc) ==
  IF entries = <<>> THEN acc
  ELSE FoldFreq(Tail(entries), OAdd(acc, Head(entries).k, Head(entries).v))

RECURSIVE GlobalFreq(_, _)
GlobalFreq(all, acc) ==
  IF all = <<>> THEN acc
  ELSE GlobalFreq(Tail(all), FoldFreq(Head(all).v.categoryFrequency, acc))

\* Array.prototype.sort((a, b) => b[1] - a[1]): stable, descending by count
RECURSIVE InsertByCount(_, _)
InsertByCount(sorted, x) ==
  IF sorted = <<>> THEN <<x>>
  ELSE IF Head(sorted).v >= x.v
       THEN <<Head(sorted)>> \o InsertByCount(Tail(sorted), x)
       ELSE <<x>> \o sorted

\* variant: the entries stay in insertion order
SortByCount_Unsorted(s) == s

RECURSIVE SortByCount(_)
SortByCount(s) ==
  IF s = <<>> THEN <<>>
  ELSE InsertByCount(SortByCount(SubSeq(s, 1, Len(s) - 1)), s[Len(s)])

\* allPlaylistStats: ordered object playlistId -> stats
computeGlobalStats(allPlaylistStats) ==
  [totalPlaylists |-> Len(allPlaylistStats),
   totalVideos |-> SeqSum([i \in 1..Len(allPlaylistStats) |->
                             allPlaylistStats[i].v.totalVideos]),
   categoryDistribution |-> SortByCount(GlobalFreq(allPlaylistStats, <<>>))]

\* categoryId -> ratio (count / total as [num, den]); {} for no videos
getCategoryDistribution(videoCategories) ==
  LET total == Cardinality(DOMAIN videoCategories)
      freq == CategoryFreq(videoCategories)
  IN IF total = 0 THEN EmptyMap
     ELSE [c \in DOMAIN freq |-> [num |-> freq[c], den |-> total]]

-----------------------------------------------------------------------------
(* lib/save-reorder.js *)

\* variant: an entry is placed before the entries of its own score
RECURSIVE InsertByScore_Unstable(_, _)
InsertByScore_Unstable(sorted, x) ==
  IF sorted = <<>> THEN <<x>>
  ELSE IF Head(sorted).score > x.score
       THEN <<Head(sorted)>> \o InsertByScore_Unstable(Tail(sorted), x)
       ELSE <<x>> \o sorted

\* Array.prototype.sort((a, b) => b.score - a.score): stable, descending
RECURSIVE InsertByScore(_, _)
InsertByScore(sorted, x) ==
  IF sorted = <<>> THEN <<x>>
  ELSE IF Head(sorted).score >= x.score
       THEN <<Head(sorted)>> \o InsertByScore(Tail(sorted), x)
       ELSE <<x>> \o sorted

RECURSIVE SortByScore(_)
SortByScore(s) ==
  IF s = <<>> THEN <<>>
  ELSE InsertByScore(SortByScore(SubSeq(s, 1, Len(s) - 1)), s[Len(s)])

\* the array `scored`, in Object.entries(playlistData) order
ScoredPlaylists(videoCategoryId, playlistData) ==
  [i \in 1..Len(playlistData) |->
     [playlistId |-> playlistData[i].k,
      title |-> playlistData[i].v.title,
      score |-> IF playlistData[i].v.stats.dominantCategoryId = videoCategoryId
                THEN 1 ELSE 0,
      dominantCategory |-> playlistData[i].v.stats.dominantCategory,
      focusLabel |-> playlistData[i].v.stats.focusLabel,
      totalVideos |-> playlistData[i].v.stats.totalVideos]]

\* variant: the scored array is returned as built
reorderPlaylists_Unsorted(videoCategoryId, playlistData) ==
  ScoredPlaylists(videoCategoryId, playlistData)

\* playlistData: ordered object playlistId -> [title, stats]
reorderPlaylists(videoCategoryId, playlistData) ==
  SortByScore(ScoredPlaylists(videoCategoryId, playlistData))

\* variant: the category has to fill at least half of the playlist
playlistContainsCategory_Half(videoCategoryId, categoryDistribution) ==
  /\ videoCategoryId \in DOMAIN categoryDistribution
  /\ 2 * categoryDistribution[videoCategoryId].num
       >= categoryDistribution[videoCategoryId].den

\* (categoryDistribution[videoCategoryId] || 0) > 0
playlistContainsCategory(videoCategoryId, categoryDistribution) ==
  /\ videoCategoryId \in DOMAIN categoryDistribution
  /\ categoryDistribution[videoCategoryId].num > 0

-----------------------------------------------------------------------------
(* lib/youtube-api.js: apiCall *)

NoCall ==
  [stage |-> "none", ep |-> Null, pid |-> Null, ids |-> <<>>, pageToken |-> 0,
   usage |-> [date |-> 0, count |-> 0], items |-> <<>>, nextPageToken |-> 0,
   err |-> Null]

\* apiCall(endpoint, params, apiKey, token) up to its first await
ApiCall(ep, pid, ids, pageToken, apiKey, token) ==
  IF apiKey = Null /\ token = Null
  THEN [NoCall EXCEPT !.stage = "failed", !.ep = ep, !.err = "credentials"]
  ELSE [NoCall EXCEPT !.stage = "guard", !.ep = ep, !.pid = pid, !.ids = ids,
                      !.pageToken = pageToken]

\* the quota check on the usage read from storage; the request goes out if it passes
ApiQuotaCheck(p) ==
  /\ call[p].stage = "guard"
  /\ IF QuotaBlocked(getApiUsage)
     THEN /\ call' = [call EXCEPT ![p].stage = "failed", ![p].err = "quota"]
          /\ hist' = hist
     ELSE /\ call' = [call EXCEPT ![p].stage = "fetch"]
          /\ hist' = [hist EXCEPT !.netRequests = @ + 1]
  /\ UNCHANGED <<tab, store, now, remotePlaylists, remoteItems, pc, auth, sy, ro,
                 result, progress>>

\* the page the remote serves from offset `from` of list: its items and the
\* nextPageToken (0: none)
Page(list, from) ==
  LET k == Min(Min(MaxResults, PageLimit), Len(list) - from)
  IN IF from >= Len(list) THEN [items |-> <<>>, next |-> 0]
     ELSE [items |-> SubSeq(list, from + 1, from + k),
           next |-> IF from + k < Len(list) THEN from + k ELSE 0]

\* !resp.ok: the call throws and the counter is not touched
ApiResponseError(p) ==
  /\ call[p].stage = "fetch"
  /\ hist.apiErrors < MaxApiErrors
  /\ call' = [call EXCEPT ![p].stage = "failed", ![p].err = "upstream"]
  /\ hist' = [hist EXCEPT !.apiErrors = @ + 1]
  /\ UNCHANGED <<tab, store, now, remotePlaylists, remoteItems, pc, auth, sy, ro,
                 result, progress>>

\* resp.ok: incrementApiUsage(1) starts by reading the counter
ApiResponseOk(p) ==
  /\ call[p].stage = "fetch"
  /\ LET page == IF call[p].ep = "videos"
                 THEN [items |-> VideosResponse(call[p].ids), next |-> 0]
                 ELSE Page(EndpointList(call[p].ep, call[p].pid), call[p].pageToken)
     IN call' = [call EXCEPT ![p].stage = "incRead", ![p].items = page.items,
                             ![p].nextPageToken = page.next]
  /\ hist' = [hist EXCEPT !.okResponses = @ + 1]
  /\ UNCHANGED <<tab, store, now, remotePlaylists, remoteItems, pc, auth, sy, ro,
                 result, progress>>

\* incrementApiUsage: usage = await getApiUsage(); usage.count += n
ApiIncrementRead(p) ==
  /\ call[p].stage = "incRead"
  /\ call' = [call EXCEPT ![p].stage = "incWrite",
                          ![p].usage = IncrementedUsage(getApiUsage, 1)]
  /\ UNCHANGED <<tab, store, now, remotePlaylists, remoteItems, pc, auth, sy, ro,
                 result, progress, hist>>

\* incrementApiUsage: await chrome.storage.local.set({ apiUsage: usage })
ApiIncrementWrite(p) ==
  /\ call[p].stage = "incWrite"
  /\ store' = StoreSet(store, [f \in {"apiUsage"} |-> call[p].usage])
  /\ call' = [call EXCEPT ![p].stage = "done"]
  /\ UNCHANGED <<tab, now, remotePlaylists, remoteItems, pc, auth, sy, ro,
                 result, progress, hist>>

-----------------------------------------------------------------------------
(* lib/youtube-api.js: getAuthToken *)

NoAuth == [stage |-> "none", interactive |-> FALSE, token |-> Null, expiry |-> 0]

GetAuthToken(interactive) == [NoAuth EXCEPT !.stage = "read", !.interactive = interactive]

\* variant: a token is still returned at the instant of its expiry
CachedTokenValid_Inclusive ==
  /\ Has(store, "oauthToken") /\ store.oauthToken # Null
  /\ Has(store, "oauthTokenExpiry") /\ store.oauthTokenExpiry # 0
  /\ now <= store.oauthTokenExpiry

CachedTokenValid ==
  /\ Has(store, "oauthToken") /\ store.oauthToken # Null
  /\ Has(store, "oauthTokenExpiry") /\ store.oauthTokenExpiry # 0
  /\ now < store.oauthTokenExpiry

\* the cached token is returned unless expired; no prompt if non-interactive
AuthReadCached(p) ==
  /\ auth[p].stage = "read"
  /\ auth' = [auth EXCEPT ![p] =
       IF CachedTokenValid THEN [@ EXCEPT !.stage = "done", !.token = store.oauthToken]
       ELSE IF ~auth[p].interactive THEN [@ EXCEPT !.stage = "done", !.token = Null]
       ELSE [@ EXCEPT !.stage = "flow"]]
  /\ UNCHANGED <<tab, store, now, remotePlaylists, remoteItems, pc, call, sy, ro,
                 result, progress, hist>>

\* launchWebAuthFlow: no client id, a refused consent or a thrown error give null
AuthFlow(p) ==
  /\ auth[p].stage = "flow"
  /\ \E granted \in BOOLEAN :
       auth' = [auth EXCEPT ![p] =
         IF granted /\ Has(store, "oauthClientId") /\ store.oauthClientId # Null
         THEN [@ EXCEPT !.stage = "cache", !.token = "token",
                        !.expiry = now + DefaultExpiresIn - TokenBuffer]
         ELSE [@ EXCEPT !.stage = "done", !.token = Null]]
  /\ UNCHANGED <<tab, store, now, remotePlaylists, remoteItems, pc, call, sy, ro,
                 result, progress, hist>>

\* the new token is cached with its expiry
AuthCache(p) ==
  /\ auth[p].stage = "cache"
  /\ store' = StoreSet(store,
       [f \in {"oauthToken", "oauthTokenExpiry"} |->
          IF f = "oauthToken" THEN auth[p].token ELSE auth[p].expiry])
  /\ auth' = [auth EXCEPT ![p].stage = "done"]
  /\ UNCHANGED <<tab, now, remotePlaylists, remoteItems, pc, call, sy, ro,
                 result, progress, hist>>

-----------------------------------------------------------------------------
(* lib/youtube-api.js: getVideoCategoryIds, getPlaylistVideoCategoriesDelta *)

\* variant: a slice takes one id more than the batch size
Batch_OneMore(videoIds, i) ==
  SubSeq(videoIds, i + 1, Min(i + BatchSize + 1, Len(videoIds)))

\* the ids of one videos.list call: videoIds.slice(i, i + 50)
Batch(videoIds, i) == SubSeq(videoIds, i + 1, Min(i + BatchSize, Len(videoIds)))

\* result[item.id] = { categoryId, ... } for the items of a videos.list response
AddDetails(details, items) ==
  [v \in DOMAIN details \cup Range(items) |->
     IF v \in Range(items) THEN [categoryId |-> RemoteCategory(v)] ELSE details[v]]

\* variant: an entry without a category does not count as cached
IsCached_Resolved(cachedVideos, vid) ==
  vid \in DOMAIN cachedVideos /\ cachedVideos[vid].categoryId # Null

\* Step 2: the ids that are not in the cache
IsCached(cachedVideos, vid) == vid \in DOMAIN cachedVideos
NewIds(currentIds, cachedVideos) ==
  SelectSeq(currentIds, LAMBDA vid : ~IsCached(cachedVideos, vid))

\* variant: the call count is rounded with floor + 1
DeltaApiCalls_FloorPlusOne(newIds) == Len(newIds) \div BatchSize + 1

\* Step 3: the number of videos.list calls reported
DeltaApiCalls(newIds) ==
  IF Len(newIds) > 0 THEN CeilDiv(Len(newIds), BatchSize) ELSE 0

\* the entry built for an id that was not cached
NewEntry(vid, newDetails) ==
  LET cid == IF vid \in DOMAIN newDetails THEN newDetails[vid].categoryId ELSE Null
  IN [categoryId |-> cid,
      category |-> IF cid # Null THEN getCategoryLabel(cid) ELSE "Unknown"]

\* variant: the merge starts from the cache, so removed videos stay
MergeVideos_NoPrune(currentIds, cachedVideos, newDetails) ==
  [vid \in Range(currentIds) \cup DOMAIN cachedVideos |->
     IF vid \in DOMAIN cachedVideos THEN cachedVideos[vid]
     ELSE NewEntry(vid, newDetails)]

\* Step 4: cached entries kept, new ones added, removed ones dropped
MergeVideos(currentIds, cachedVideos, newDetails) ==
  [vid \in Range(currentIds) |->
     IF IsCached(cachedVideos, vid) THEN cachedVideos[vid]
     ELSE NewEntry(vid, newDetails)]

-----------------------------------------------------------------------------
(* background.js: responses *)

NoResult ==
  [msg |-> Null, success |-> FALSE, error |-> Null, totalPlaylists |-> 0,
   usage |-> [date |-> 0, count |-> 0], videoCategoryId |-> Null,
   reordered |-> <<>>]

Failure(msg, error) == [NoResult EXCEPT !.msg = msg, !.error = error]
Success(msg) == [NoResult EXCEPT !.msg = msg, !.success = TRUE]

\* variant: the message of a non-success response is lost
ErrorMessage_Lost(err) ==
  CASE err = "quota" -> "Daily API limit approaching"
    [] err = "upstream" -> Null
    [] OTHER -> "No API key or OAuth token provided."

\* err.message of the errors apiCall throws
ErrorMessage(err) ==
  CASE err = "quota" -> "Daily API limit approaching"
    [] err = "upstream" -> "YouTube API error"
    [] OTHER -> "No API key or OAuth token provided."

-----------------------------------------------------------------------------
(* background.js: handleSync *)

NoSync ==
  [apiKey |-> Null, channelId |-> Null, token |-> Null, all |-> <<>>,
   playlists |-> <<>>, cached |-> EmptyMap, i |-> 0, ids |-> <<>>,
   newIds |-> <<>>, newDetails |-> EmptyMap, apiCalls |-> 0, batch |-> 0,
   stats |-> <<>>, meta |-> EmptyMap, cats |-> EmptyMap, totalApiCalls |-> 0,
   lastSync |-> 0,
   \* observers of the run
   failedPids |-> {},        \* playlists whose processing was caught
   log |-> EmptyMap,         \* per playlist: ids listed, apiCalls reported,
                             \* videos.list calls issued, playlistItems.list
                             \* calls issued, pages received
   followsClean |-> FALSE,   \* the previous run persisted with no caught playlist
   unchangedBefore |-> FALSE, \* no catalog edit since the previous run started
   bundle0 |-> <<>>,         \* the stored bundle when the run started
   usage0 |-> <<>>,          \* the stored usage record when the run started
   requests0 |-> 0           \* the requests sent before the run started
  ]

NoLog == [ids |-> <<>>, apiCalls |-> 0, batches |-> 0, pages |-> 0, got |-> 0]

RoundDiv(a, b) == (2 * a + b) \div (2 * b)     \* Math.round(a / b)

\* snippet of a listed playlist
PlaylistMeta(pid) == [title |-> pid]

\* the run goes on: next position, locals, apiCall in flight, progress so far
SyncGoto(newPc, s, c, prog, h) ==
  /\ pc' = [pc EXCEPT !.sync = newPc]
  /\ sy' = s
  /\ call' = [call EXCEPT !.sync = c]
  /\ progress' = prog
  /\ hist' = h
  /\ result' = IF pc.sync = "idle" THEN NoResult ELSE result

\* the run returns: the response is sent
SyncReturn(res, prog, h) ==
  /\ pc' = [pc EXCEPT !.sync = "idle"]
  /\ sy' = NoSync
  /\ call' = [call EXCEPT !.sync = NoCall]
  /\ progress' = prog
  /\ hist' = h
  /\ result' = res

\* a failed run or a cleared store: the index is not that of a clean run
Unclean(h) == [h EXCEPT !.lastClean = FALSE, !.lastListed = <<>>]

\* variant: the fallback asks for the API key only
SyncFallback_KeyOnly(s, prog, h) ==
  IF s.apiKey = Null
  THEN SyncReturn(Failure("SYNC_START",
                          "Enter an OAuth Client ID, or an API Key + Channel ID."),
                  prog, Unclean(h))
  ELSE SyncGoto("listChannel", [s EXCEPT !.all = <<>>],
                ApiCall("playlistsChannel", Null, <<>>, 0, s.apiKey, Null), prog, h)

\* Fallback: API key + channel ID (public only)
SyncFallback(s, prog, h) ==
  IF s.apiKey = Null \/ s.channelId = Null
  THEN SyncReturn(Failure("SYNC_START",
                          "Enter an OAuth Client ID, or an API Key + Channel ID."),
                  prog, Unclean(h))
  ELSE SyncGoto("listChannel", [s EXCEPT !.all = <<>>],
                ApiCall("playlistsChannel", Null, <<>>, 0, s.apiKey, Null), prog, h)

\* variant: an empty listing is synced like any other, to an empty bundle
SyncAfterListing_EmptySynced(s, prog, h) ==
  IF Len(s.playlists) = 0
  THEN SyncGoto("persist", [s EXCEPT !.lastSync = now], NoCall,
                prog \o <<15, 90, 95>>, h)
  ELSE SyncGoto("loadCache", s, NoCall, Append(prog, 15), h)

\* the listing is in s.playlists
SyncAfterListing(s, prog, h) ==
  IF Len(s.playlists) = 0
  THEN SyncReturn(Failure("SYNC_START", "No playlists found."), prog, Unclean(h))
  ELSE SyncGoto("loadCache", s, NoCall, Append(prog, 15), h)

\* variant: the loop's share of the bar is taken as 100 instead of 70
PlaylistPct_OfHundred(i, n) == 15 + RoundDiv((i - 1) * 100, n)

\* pct of the i-th of n playlists (i from 1): 15 + Math.round((i - 1) / n * 70)
PlaylistPct(i, n) == 15 + RoundDiv((i - 1) * 70, n)

\* loop body up to the first await of getPlaylistVideoCategoriesDelta
SyncBeginPlaylist(s, prog, h) ==
  LET pid == s.playlists[s.i]
      pct == PlaylistPct(s.i, Len(s.playlists))
  IN SyncGoto("listItems",
              [s EXCEPT !.meta = Put(@, pid, PlaylistMeta(pid)), !.ids = <<>>,
                        !.newIds = <<>>, !.newDetails = EmptyMap, !.apiCalls = 0,
                        !.batch = 0,
                        !.log = Put(@, pid, [NoLog EXCEPT !.pages = 1])],
              ApiCall("playlistItems", pid, <<>>, 0, s.apiKey, s.token),
              Append(prog, pct), h)

\* variant: the last notification is sent with the others, before the write
SyncNextPlaylist_EarlyFull(s, prog, h) ==
  IF s.i < Len(s.playlists)
  THEN SyncBeginPlaylist([s EXCEPT !.i = @ + 1], prog, h)
  ELSE SyncGoto("persist", [s EXCEPT !.lastSync = now], NoCall,
                prog \o <<90, 95, 100>>, h)

\* i++; after the loop: global stats, then the bundle is handed to storage
SyncNextPlaylist(s, prog, h) ==
  IF s.i < Len(s.playlists)
  THEN SyncBeginPlaylist([s EXCEPT !.i = @ + 1], prog, h)
  ELSE SyncGoto("persist", [s EXCEPT !.lastSync = now], NoCall,
                prog \o <<90, 95>>, h)

\* try block after the delta returned { videos, apiCalls }
SyncFinishPlaylist(s, videos, apiCalls, prog, h) ==
  LET pid == s.playlists[s.i]
  IN SyncNextPlaylist(
       [s EXCEPT !.cats = Put(@, pid, videos),
                 !.totalApiCalls = @ + apiCalls,
                 !.log[pid].apiCalls = apiCalls,
                 !.stats = OPut(@, pid, computePlaylistStats(videos))],
       prog, h)

\* variant: no catch at the playlist, the error ends the run
SyncCatchPlaylist_Rethrow(s, prog, h) ==
  SyncReturn(Failure("SYNC_START", ErrorMessage(call.sync.err)), prog, Unclean(h))

\* variant: the catch block records nothing for the playlist
SyncCatchPlaylist_NoRecord(s, prog, h) ==
  LET pid == s.playlists[s.i]
  IN SyncNextPlaylist([s EXCEPT !.failedPids = @ \cup {pid}], prog, h)

\* catch block: the playlist degrades to the Empty record
SyncCatchPlaylist(s, prog, h) ==
  LET pid == s.playlists[s.i]
  IN SyncNextPlaylist(
       [s EXCEPT !.stats = OPut(@, pid, computePlaylistStats(EmptyMap)),
                 !.failedPids = @ \cup {pid}],
       prog, h)

PrevCache(s) ==
  LET pid == s.playlists[s.i]
  IN IF pid \in DOMAIN s.cached THEN s.cached[pid] ELSE EmptyMap

\* the stored usage record, or none
StoredUsage(st) == IF Has(st, "apiUsage") THEN <<st.apiUsage>> ELSE <<>>

\* the bundle keys of a store: present values, absent keys
BundleOf(st) == [k \in BundleKeys |-> IF Has(st, k) THEN <<st[k]>> ELSE <<>>]

\* SYNC_START: the configuration is read, then the token or the fallback
SyncStart(maxRuns) ==
  /\ pc.sync = "idle"
  /\ hist.syncRuns < maxRuns
  /\ LET s == [NoSync EXCEPT !.apiKey = StoreGet("apiKey"),
                             !.channelId = StoreGet("channelId"),
                             !.followsClean = hist.lastClean,
                             !.unchangedBefore = hist.quiet,
                             !.bundle0 = BundleOf(store),
                             !.usage0 = StoredUsage(store),
                             !.requests0 = hist.netRequests]
         h == [hist EXCEPT !.syncRuns = @ + 1, !.quiet = TRUE]
     IN IF StoreGet("oauthClientId") # Null
        THEN /\ SyncGoto("auth", s, NoCall, <<5>>, h)
             /\ auth' = [auth EXCEPT !.sync = GetAuthToken(TRUE)]
        ELSE /\ SyncFallback(s, <<5>>, h)
             /\ auth' = auth
  /\ UNCHANGED <<tab, store, now, remotePlaylists, remoteItems, ro>>

\* variant: the key-based listing is preferred whenever a key is configured
SyncAuthDone_KeyFirst ==
  /\ pc.sync = "auth"
  /\ auth.sync.stage = "done"
  /\ LET s == [sy EXCEPT !.token = auth.sync.token, !.all = <<>>]
     IN IF s.token # Null /\ (s.apiKey = Null \/ s.channelId = Null)
        THEN SyncGoto("listUser", s,
                      ApiCall("playlistsMine", Null, <<>>, 0, s.apiKey, s.token),
                      progress, hist)
        ELSE SyncFallback(s, progress, hist)
  /\ auth' = [auth EXCEPT !.sync = NoAuth]
  /\ UNCHANGED <<tab, store, now, remotePlaylists, remoteItems, ro>>

\* getAuthToken(true) returned: OAuth listing with the token, else the fallback
SyncAuthDone ==
  /\ pc.sync = "auth"
  /\ auth.sync.stage = "done"
  /\ LET s == [sy EXCEPT !.token = auth.sync.token, !.all = <<>>]
     IN IF s.token # Null
        THEN SyncGoto("listUser", s,
                      ApiCall("playlistsMine", Null, <<>>, 0, s.apiKey, s.token),
                      progress, hist)
        ELSE SyncFallback(s, progress, hist)
  /\ auth' = [auth EXCEPT !.sync = NoAuth]
  /\ UNCHANGED <<tab, store, now, remotePlaylists, remoteItems, ro>>

\* getUserPlaylists: one page arrived
SyncListUserPage ==
  /\ pc.sync = "listUser"
  /\ call.sync.stage = "done"
  /\ LET all == sy.all \o call.sync.items
     IN IF call.sync.nextPageToken # 0
        THEN SyncGoto("listUser", [sy EXCEPT !.all = all],
                      ApiCall("playlistsMine", Null, <<>>, call.sync.nextPageToken,
                              sy.apiKey, sy.token),
                      progress, hist)
        ELSE SyncAfterListing([sy EXCEPT !.all = all, !.playlists = all],
                              progress, hist)
  /\ UNCHANGED <<tab, store, now, remotePlaylists, remoteItems, auth, ro>>

\* getUserPlaylists threw: catch (oauthErr), then the fallback
SyncListUserError ==
  /\ pc.sync = "listUser"
  /\ call.sync.stage = "failed"
  /\ SyncFallback(sy, progress, hist)
  /\ UNCHANGED <<tab, store, now, remotePlaylists, remoteItems, auth, ro>>

\* variant: the listing returns after its first page
SyncListChannelPage_FirstPageOnly ==
  /\ pc.sync = "listChannel"
  /\ call.sync.stage = "done"
  /\ LET all == sy.all \o call.sync.items
     IN SyncAfterListing([sy EXCEPT !.all = all, !.playlists = all], progress, hist)
  /\ UNCHANGED <<tab, store, now, remotePlaylists, remoteItems, auth, ro>>

\* getChannelPlaylists: one page arrived
SyncListChannelPage ==
  /\ pc.sync = "listChannel"
  /\ call.sync.stage = "done"
  /\ LET all == sy.all \o call.sync.items
     IN IF call.sync.nextPageToken # 0
        THEN SyncGoto("listChannel", [sy EXCEPT !.all = all],
                      ApiCall("playlistsChannel", Null, <<>>,
                              call.sync.nextPageToken, sy.apiKey, Null),
                      progress, hist)
        ELSE SyncAfterListing([sy EXCEPT !.all = all, !.playlists = all],
                              progress, hist)
  /\ UNCHANGED <<tab, store, now, remotePlaylists, remoteItems, auth, ro>>

\* variant: a failed key-based listing drops the stored bundle
SyncListChannelError_DropsBundle ==
  /\ pc.sync = "listChannel"
  /\ call.sync.stage = "failed"
  /\ store' = StoreRemove(store, BundleKeys)
  /\ SyncReturn(Failure("SYNC_START", ErrorMessage(call.sync.err)), progress,
                Unclean(hist))
  /\ UNCHANGED <<tab, now, remotePlaylists, remoteItems, auth, ro>>

\* variant: the key-based listing is attempted again after it threw
SyncListChannelError_Retry ==
  /\ pc.sync = "listChannel"
  /\ call.sync.stage = "failed"
  /\ SyncGoto("listChannel", [sy EXCEPT !.all = <<>>],
              ApiCall("playlistsChannel", Null, <<>>, 0, sy.apiKey, Null),
              progress, hist)
  /\ UNCHANGED <<tab, store, now, remotePlaylists, remoteItems, auth, ro>>

\* getChannelPlaylists threw: the outer catch returns the failure
SyncListChannelError ==
  /\ pc.sync = "listChannel"
  /\ call.sync.stage = "failed"
  /\ SyncReturn(Failure("SYNC_START", ErrorMessage(call.sync.err)), progress,
                Unclean(hist))
  /\ UNCHANGED <<tab, store, now, remotePlaylists, remoteItems, auth, ro>>

\* variant: the loop starts without the cached categories
SyncLoadCache_NoCache ==
  /\ pc.sync = "loadCache"
  /\ SyncBeginPlaylist([sy EXCEPT !.cached = EmptyMap, !.i = 1], progress, hist)
  /\ UNCHANGED <<tab, store, now, remotePlaylists, remoteItems, auth, ro>>

\* the cached categories are loaded; the loop starts
SyncLoadCache ==
  /\ pc.sync = "loadCache"
  /\ SyncBeginPlaylist([sy EXCEPT !.cached = StoreGet("playlistCategories"),
                                  !.i = 1],
                       progress, hist)
  /\ UNCHANGED <<tab, store, now, remotePlaylists, remoteItems, auth, ro>>

\* the continuation of `await apiCall("playlistItems", ...)`
SyncItemsResume ==
  /\ pc.sync = "listItems"
  /\ LET pid == sy.playlists[sy.i]
         ids == sy.ids \o call.sync.items
         newIds == NewIds(ids, PrevCache(sy))
         s == [sy EXCEPT !.ids = ids, !.log[pid].ids = ids, !.log[pid].got = @ + 1]
     IN IF call.sync.nextPageToken # 0
        THEN SyncGoto("listItems", [s EXCEPT !.log[pid].pages = @ + 1],
                      ApiCall("playlistItems", pid, <<>>, call.sync.nextPageToken,
                              sy.apiKey, sy.token),
                      progress, hist)
        ELSE IF Len(newIds) > 0
        THEN SyncGoto("details",
                      [s EXCEPT !.newIds = newIds,
                                !.apiCalls = DeltaApiCalls(newIds),
                                !.log[pid].batches = @ + 1],
                      ApiCall("videos", pid, Batch(newIds, 0), 0, sy.apiKey, sy.token),
                      progress, hist)
        ELSE SyncFinishPlaylist(s, MergeVideos(ids, PrevCache(sy), EmptyMap),
                                DeltaApiCalls(newIds), progress, hist)
  /\ UNCHANGED <<tab, store, now, remotePlaylists, remoteItems, auth, ro>>

\* variant: the listing call is not awaited, the loop goes on while it is pending
SyncItemsPage_NoAwait ==
  /\ call.sync.stage \in {"fetch", "done"}
  /\ SyncItemsResume

\* getPlaylistVideoIds: one page arrived; after the last one, Steps 2 to 4
SyncItemsPage ==
  /\ call.sync.stage = "done"
  /\ SyncItemsResume

\* getVideoCategoryIds: one batch arrived; after the last one, Step 4
SyncDetailsBatch ==
  /\ pc.sync = "details"
  /\ call.sync.stage = "done"
  /\ LET pid == sy.playlists[sy.i]
         details == AddDetails(sy.newDetails, call.sync.items)
         next == sy.batch + BatchSize
         s == [sy EXCEPT !.newDetails = details, !.batch = next]
     IN IF next < Len(sy.newIds)
        THEN SyncGoto("details", [s EXCEPT !.log[pid].batches = @ + 1],
                      ApiCall("videos", pid, Batch(sy.newIds, next), 0,
                              sy.apiKey, sy.token),
                      progress, hist)
        ELSE SyncFinishPlaylist(s, MergeVideos(sy.ids, PrevCache(sy), details),
                                sy.apiCalls, progress, hist)
  /\ UNCHANGED <<tab, store, now, remotePlaylists, remoteItems, auth, ro>>

\* getPlaylistVideoCategoriesDelta threw: caught at the playlist
SyncPlaylistError ==
  /\ pc.sync \in {"listItems", "details"}
  /\ call.sync.stage = "failed"
  /\ SyncCatchPlaylist(sy, progress, hist)
  /\ UNCHANGED <<tab, store, now, remotePlaylists, remoteItems, auth, ro>>

\* variant: the persisted index is the previous one updated with the run's entries
SyncBundle_Merged(s) ==
  [f \in BundleKeys |->
     CASE f = "globalStats" -> computeGlobalStats(s.stats)
       [] f = "playlistStats" -> s.stats
       [] f = "playlistMeta" -> s.meta
       [] f = "playlistCategories" ->
            [pid \in DOMAIN s.cached \cup DOMAIN s.cats |->
               IF pid \in DOMAIN s.cats THEN s.cats[pid] ELSE s.cached[pid]]
       [] f = "lastSync" -> s.lastSync]

\* the bundle a run persists
SyncBundle(s) ==
  [f \in BundleKeys |->
     CASE f = "globalStats" -> computeGlobalStats(s.stats)
       [] f = "playlistStats" -> s.stats
       [] f = "playlistMeta" -> s.meta
       [] f = "playlistCategories" -> s.cats
       [] f = "lastSync" -> s.lastSync]

\* chrome.storage.local.set of the bundle resolved: 100 %, success
SyncPersist ==
  /\ pc.sync = "persist"
  /\ store' = StoreSet(store, SyncBundle(sy))
  /\ SyncReturn([Success("SYNC_START") EXCEPT !.totalPlaylists = Len(sy.playlists)],
                Append(progress, 100),
                [hist EXCEPT !.lastClean = (sy.failedPids = {}),
                             !.lastListed = sy.playlists])
  /\ UNCHANGED <<tab, now, remotePlaylists, remoteItems, auth, ro>>

-----------------------------------------------------------------------------
(* background.js: handleReorder *)

NoReorder ==
  [videoId |-> Null, apiKey |-> Null, token |-> Null, categoryId |-> Null,
   \* observer of the request
   requests0 |-> 0           \* the requests sent before the request started
  ]

ReorderGoto(newPc, r, c) ==
  /\ pc' = [pc EXCEPT !.reorder = newPc]
  /\ ro' = r
  /\ call' = [call EXCEPT !.reorder = c]
  /\ result' = IF pc.reorder = "idle" THEN NoResult ELSE result

ReorderReturn(res) ==
  /\ pc' = [pc EXCEPT !.reorder = "idle"]
  /\ ro' = NoReorder
  /\ call' = [call EXCEPT !.reorder = NoCall]
  /\ result' = res

\* credentials check, then getVideoCategory(videoId, apiKey, token)
ReorderLookup(r) ==
  IF r.apiKey = Null /\ r.token = Null
  THEN ReorderReturn(Failure("GET_REORDERED_PLAYLISTS", "No credentials configured."))
  ELSE ReorderGoto("category", r,
                   ApiCall("videos", Null, Batch(<<r.videoId>>, 0), 0, r.apiKey, r.token))

\* GET_REORDERED_PLAYLISTS with msg.videoId, the maxRuns-th at most
ReorderRequest(videoId, maxRuns) ==
  /\ pc.reorder = "idle"
  /\ hist.reorderRuns < maxRuns
  /\ hist' = [hist EXCEPT !.reorderRuns = @ + 1]
  /\ LET r == [NoReorder EXCEPT !.videoId = videoId, !.apiKey = StoreGet("apiKey"),
                                !.requests0 = hist.netRequests]
     IN IF videoId = Null
        THEN /\ ReorderReturn(Failure("GET_REORDERED_PLAYLISTS", "No video ID provided"))
             /\ auth' = auth
        ELSE IF StoreGet("oauthClientId") # Null
        THEN /\ ReorderGoto("auth", r, NoCall)
             /\ auth' = [auth EXCEPT !.reorder = GetAuthToken(FALSE)]
        ELSE /\ ReorderLookup(r)
             /\ auth' = auth
  /\ UNCHANGED <<tab, store, now, remotePlaylists, remoteItems, sy, progress>>

ReorderStart(videoId) == ReorderRequest(videoId, MaxReorderRuns)

\* getAuthToken(false) returned
ReorderAuthDone ==
  /\ pc.reorder = "auth"
  /\ auth.reorder.stage = "done"
  /\ ReorderLookup([ro EXCEPT !.token = auth.reorder.token])
  /\ auth' = [auth EXCEPT !.reorder = NoAuth]
  /\ UNCHANGED <<tab, store, now, remotePlaylists, remoteItems, sy, progress, hist>>

\* getVideoCategory returned: null when the video was not in the response
ReorderCategory ==
  /\ pc.reorder = "category"
  /\ call.reorder.stage = "done"
  /\ IF ro.videoId \notin Range(call.reorder.items)
     THEN ReorderReturn(Failure("GET_REORDERED_PLAYLISTS",
                                "Could not determine video category"))
     ELSE ReorderGoto("load", [ro EXCEPT !.categoryId = RemoteCategory(ro.videoId)],
                      NoCall)
  /\ UNCHANGED <<tab, store, now, remotePlaylists, remoteItems, auth, sy, progress, hist>>

\* getVideoCategory threw: the catch returns the failure
ReorderCategoryError ==
  /\ pc.reorder = "category"
  /\ call.reorder.stage = "failed"
  /\ ReorderReturn(Failure("GET_REORDERED_PLAYLISTS", ErrorMessage(call.reorder.err)))
  /\ UNCHANGED <<tab, store, now, remotePlaylists, remoteItems, auth, sy, progress, hist>>

\* playlistData built from the stored stats and meta, in Object.entries order
PlaylistData ==
  LET stats == store.playlistStats
      meta == StoreGet("playlistMeta")
      cats == StoreGet("playlistCategories")
  IN [i \in 1..Len(stats) |->
        [k |-> stats[i].k,
         v |-> [title |-> IF stats[i].k \in DOMAIN meta THEN meta[stats[i].k].title
                          ELSE stats[i].k,
                stats |-> stats[i].v,
                categoryDistribution |->
                  getCategoryDistribution(IF stats[i].k \in DOMAIN cats
                                          THEN cats[stats[i].k] ELSE EmptyMap)]]]

\* variant: the request stamps the stored bundle with the time it was used
ReorderLoad_Restamps ==
  /\ pc.reorder = "load"
  /\ Has(store, "playlistStats")
  /\ store' = StoreSet(store, [f \in {"lastSync"} |-> now])
  /\ ReorderReturn([Success("GET_REORDERED_PLAYLISTS") EXCEPT
                      !.videoCategoryId = ro.categoryId,
                      !.reordered = reorderPlaylists(ro.categoryId, PlaylistData)])
  /\ UNCHANGED <<tab, now, remotePlaylists, remoteItems, auth, sy, progress, hist>>

\* the stored playlist data is loaded, scored and reordered
ReorderLoad ==
  /\ pc.reorder = "load"
  /\ IF ~Has(store, "playlistStats")
     THEN ReorderReturn(Failure("GET_REORDERED_PLAYLISTS",
                                "No playlist data. Sync first."))
     ELSE ReorderReturn([Success("GET_REORDERED_PLAYLISTS") EXCEPT
                           !.videoCategoryId = ro.categoryId,
                           !.reordered = reorderPlaylists(ro.categoryId, PlaylistData)])
  /\ UNCHANGED <<tab, store, now, remotePlaylists, remoteItems, auth, sy, progress, hist>>

-----------------------------------------------------------------------------
(* background.js: the other messages *)

ConfigKeys == {"apiKey", "channelId", "oauthClientId"}
TokenKeys == {"oauthToken", "oauthTokenExpiry", "oauthConnected"}

\* variant: CLEAR_DATA removes the usage counter with the rest of the store
ClearData_AlsoUsage ==
  /\ store' = StoreRemove(store, StoreKeys)
  /\ result' = Success("CLEAR_DATA")
  /\ hist' = Unclean(hist)
  /\ UNCHANGED <<tab, now, remotePlaylists, remoteItems, pc, call, auth, sy, ro, progress>>

\* CLEAR_DATA: handleClearData, then removeAuthToken; when the revoke request
\* throws, removeAuthToken's catch skips the removal of the token keys
ClearData ==
  /\ \E revoked \in BOOLEAN :
       store' = StoreRemove(store,
                  ConfigKeys \cup BundleKeys \cup
                  IF StoreGet("oauthToken") = Null \/ revoked THEN TokenKeys ELSE {})
  /\ result' = Success("CLEAR_DATA")
  /\ hist' = Unclean(hist)
  /\ UNCHANGED <<tab, now, remotePlaylists, remoteItems, pc, call, auth, sy, ro, progress>>

\* GET_API_USAGE
GetUsage ==
  /\ result' = [Success("GET_API_USAGE") EXCEPT !.usage = getApiUsage]
  /\ UNCHANGED <<tab, store, now, remotePlaylists, remoteItems, pc, call, auth, sy, ro,
                 progress, hist>>

\* RESET_API_USAGE: resetApiUsage
ResetUsage ==
  /\ store' = StoreSet(store, [f \in {"apiUsage"} |-> [date |-> todayKey, count |-> 0]])
  /\ result' = Success("RESET_API_USAGE")
  /\ hist' = [hist EXCEPT !.steady = FALSE]
  /\ UNCHANGED <<tab, now, remotePlaylists, remoteItems, pc, call, auth, sy, ro, progress>>

\* a message no case of the switch handles: one of an unknown type gets the
\* default answer; for a null message `msg.type` throws and the listener's
\* catch answers with err.message
OtherMessages == {"unknown", "null"}

UnknownMessage(kind) ==
  /\ result' = IF kind = "unknown"
               THEN Failure(kind, "Unknown message type")
               ELSE Failure(kind, "Cannot read properties of null")
  /\ UNCHANGED <<tab, store, now, remotePlaylists, remoteItems, pc, call, auth, sy, ro,
                 progress, hist>>

-----------------------------------------------------------------------------
(* content/content.js: the content script of a tab *)

\* the variables of the background service worker
background == <<store, now, remotePlaylists, remoteItems, pc, call, auth, sy, ro,
                result, progress, hist>>

NoTab ==
  [processing |-> FALSE,  \* let processing
   attr |-> FALSE,        \* the list container has the data-pi-reordered attribute
   videoId |-> Null,      \* the v parameter of window.location
   children |-> <<>>,     \* the items of the list container, in DOM order
   inv |-> <<>>,          \* the handleModalOpen invocations that passed the guard
   \* observers
   reorders |-> 0,        \* reorderDOM calls on the container since the last navigation
   navs |-> 0]            \* yt-navigate-finish events

\* an item element of the list and what getItemTitle reads from it (Null: no title)
Item(el, title) == [el |-> el, title |-> title]

\* handleModalOpen up to its first await
handleModalOpen(t) ==
  IF t.processing THEN t
  ELSE [t EXCEPT !.processing = TRUE,
                 !.inv = Append(@, [stage |-> "stable", items |-> <<>>])]

\* finally { processing = false } of the invocation i
Finished(t, i) == [t EXCEPT !.processing = FALSE, !.inv[i].stage = "done"]

\* variant: items without a title are left where they are
reorderDOM_SkipsUntitled(children, items, reorderedPlaylists) ==
  LET matchingTitles == {reorderedPlaylists[k].title :
                           k \in {j \in 1..Len(reorderedPlaylists) :
                                    reorderedPlaylists[j].score > 0}}
      titled == SelectSeq(items, LAMBDA item : item.title # Null)
      matchedItems == SelectSeq(titled, LAMBDA item : item.title \in matchingTitles)
      restItems == SelectSeq(titled, LAMBDA item : item.title \notin matchingTitles)
      moved == matchedItems \o restItems
  IN SelectSeq(children, LAMBDA c : c \notin Range(moved)) \o moved

\* reorderDOM: the items are partitioned in their given order and appended to
\* the container, matched ones first (appendChild moves an element to the end)
reorderDOM(children, items, reorderedPlaylists) ==
  LET matchingTitles == {reorderedPlaylists[k].title :
                           k \in {j \in 1..Len(reorderedPlaylists) :
                                    reorderedPlaylists[j].score > 0}}
      IsMatch(item) == item.title # Null /\ item.title \in matchingTitles
      matchedItems == SelectSeq(items, IsMatch)
      restItems == SelectSeq(items, LAMBDA item : ~IsMatch(item))
      moved == matchedItems \o restItems
  IN SelectSeq(children, LAMBDA c : c \notin Range(moved)) \o moved

\* the save modal's list is filled by the page
ModalItems == <<Item(1, "a"), Item(2, "b")>>

ItemsLoaded ==
  /\ tab.children = <<>>
  /\ tab' = [tab EXCEPT !.children = ModalItems]
  /\ UNCHANGED background

\* the MutationObserver callback: the modal has items and its container is not
\* marked, so handleModalOpen(modal) is called
ObserverCallback ==
  /\ Len(tab.children) > 0
  /\ ~tab.attr
  /\ Len(tab.inv) < MaxInvocations
  /\ tab' = handleModalOpen(tab)
  /\ UNCHANGED background

\* waitForStable resolved for the invocation i: the container is marked and
\* the ranking is asked of the background
ModalStable(i) ==
  /\ i \in 1..Len(tab.inv)
  /\ tab.inv[i].stage = "stable"
  /\ tab' = IF Len(tab.children) = 0 \/ tab.attr THEN Finished(tab, i)
            ELSE IF tab.videoId = Null THEN [Finished(tab, i) EXCEPT !.attr = TRUE]
            ELSE [tab EXCEPT !.attr = TRUE, !.inv[i].stage = "response",
                             !.inv[i].items = tab.children]
  /\ UNCHANGED background

\* the answers chrome.runtime.sendMessage resolves with
NoResponse == [success |-> FALSE, reordered |-> <<>>, none |-> TRUE]
FailureResponse == [success |-> FALSE, reordered |-> <<>>, none |-> FALSE]
SuccessResponse(reordered) == [success |-> TRUE, reordered |-> reordered, none |-> FALSE]

\* the response arrived for the invocation i
ModalResponse(i, response) ==
  /\ i \in 1..Len(tab.inv)
  /\ tab.inv[i].stage = "response"
  /\ tab' = IF response.none \/ ~response.success THEN Finished(tab, i)
            ELSE [Finished(tab, i) EXCEPT
                    !.children = reorderDOM(@, tab.inv[i].items, response.reordered),
                    !.reorders = @ + 1]
  /\ UNCHANGED background

\* the yt-navigate-finish listener: the marks are removed, processing = false
NavigateFinish(videoId) ==
  /\ tab.navs < MaxNavigations
  /\ tab' = [tab EXCEPT !.attr = FALSE, !.processing = FALSE, !.videoId = videoId,
                        !.reorders = 0, !.navs = @ + 1]
  /\ UNCHANGED background

-----------------------------------------------------------------------------
(* The environment: the clock and the remote catalog *)

Tick ==
  /\ hist.ticks < MaxTicks
  /\ now' = now + DefaultExpiresIn
  /\ hist' = [hist EXCEPT !.ticks = @ + 1,
                          !.steady = @ /\ (now' \div MinutesPerDay = todayKey)]
  /\ UNCHANGED <<tab, store, remotePlaylists, remoteItems, pc, call, auth, sy, ro,
                 result, progress>>

RemoteChanged == [hist EXCEPT !.remoteChanges = @ + 1, !.quiet = FALSE]

\* a video is added at the end of a playlist
RemoteAddVideo(pid, vid) ==
  /\ hist.remoteChanges < MaxRemoteChanges
  /\ pid \in Range(remotePlaylists)
  /\ Len(remoteItems[pid]) < MaxItems
  /\ remoteItems' = [remoteItems EXCEPT ![pid] = Append(@, vid)]
  /\ hist' = RemoteChanged
  /\ UNCHANGED <<tab, store, now, remotePlaylists, pc, call, auth, sy, ro, result, progress>>

\* the first video of a playlist is removed from it
RemoteRemoveVideo(pid) ==
  /\ hist.remoteChanges < MaxRemoteChanges
  /\ pid \in Range(remotePlaylists)
  /\ Len(remoteItems[pid]) > 0
  /\ remoteItems' = [remoteItems EXCEPT ![pid] = Tail(@)]
  /\ hist' = RemoteChanged
  /\ UNCHANGED <<tab, store, now, remotePlaylists, pc, call, auth, sy, ro, result, progress>>

\* a playlist is deleted
RemoteDeletePlaylist(pid) ==
  /\ hist.remoteChanges < MaxRemoteChanges
  /\ pid \in Range(remotePlaylists)
  /\ remotePlaylists' = SelectSeq(remotePlaylists, LAMBDA q : q # pid)
  /\ hist' = RemoteChanged
  /\ UNCHANGED <<tab, store, now, remoteItems, pc, call, auth, sy, ro, result, progress>>

-----------------------------------------------------------------------------
(* Initial states: a configured extension before its first sync *)

InitConfigs ==
  { [f \in ks |-> "set"] :
      ks \in {{"oauthClientId"}, {"apiKey"}, {"apiKey", "channelId"},
              {"apiKey", "channelId", "oauthClientId"}} }

\* a fresh counter, or one call away from the quota guard
InitStores ==
  { StoreSet(EmptyStore, cfg) : cfg \in InitConfigs } \cup
  { StoreSet(StoreSet(EmptyStore, cfg),
             [f \in {"apiUsage"} |-> [date |-> todayKey, count |-> QuotaLimit - 1]]) :
      cfg \in {c \in InitConfigs : DOMAIN c = ConfigKeys} }

InitHist ==
  [netRequests |-> 0, okResponses |-> 0, apiErrors |-> 0, syncRuns |-> 0, reorderRuns |-> 0,
   remoteChanges |-> 0, ticks |-> 0, steady |-> TRUE, lastClean |-> FALSE,
   quiet |-> TRUE, lastListed |-> <<>>, usage0 |-> 0]

Init ==
  /\ now = MinutesPerDay - TokenBuffer
  /\ store \in InitStores
  /\ remotePlaylists = <<"p1", "p2">>
  /\ remoteItems = [p \in Pids |-> IF p = "p1" THEN <<"v1", "v3">> ELSE <<"v2">>]
  /\ pc = [p \in Procs |-> "idle"]
  /\ call = [p \in Procs |-> NoCall]
  /\ auth = [p \in Procs |-> NoAuth]
  /\ sy = NoSync
  /\ ro = NoReorder
  /\ result = NoResult
  /\ progress = <<>>
  /\ tab = NoTab
  /\ hist = [InitHist EXCEPT !.usage0 = getApiUsage.count]

-----------------------------------------------------------------------------
(* Specifications *)

ApiStep(p) ==
  \/ ApiQuotaCheck(p)
  \/ ApiResponseOk(p)
  \/ ApiResponseError(p)
  \/ ApiIncrementRead(p)
  \/ ApiIncrementWrite(p)

AuthStep(p) ==
  \/ AuthReadCached(p)
  \/ AuthFlow(p)
  \/ AuthCache(p)

SyncStep ==
  \/ SyncAuthDone
  \/ SyncListUserPage
  \/ SyncListUserError
  \/ SyncListChannelPage
  \/ SyncListChannelError
  \/ SyncLoadCache
  \/ SyncItemsPage
  \/ SyncDetailsBatch
  \/ SyncPlaylistError
  \/ SyncPersist

ReorderStep ==
  \/ ReorderAuthDone
  \/ ReorderCategory
  \/ ReorderCategoryError
  \/ ReorderLoad

\* the edits made to the remote catalog: to the public playlist, with video v2
EditedPids == {"p1"}
AddedVids == {"v2"}

Environment ==
  \/ Tick
  \/ \E pid \in EditedPids, vid \in AddedVids : RemoteAddVideo(pid, vid)
  \/ \E pid \in EditedPids : RemoteRemoveVideo(pid)
  \/ \E pid \in EditedPids : RemoteDeletePlaylist(pid)

\* msg.videoId of a ranking request: a video, a deleted video, none
QueryVids == {"v1", "v3", Null}

Idle == \A p \in Procs : pc[p] = "idle"

\* one caller at a time: a message is sent only when no handler is running
Next ==
  \/ Idle /\ SyncStart(MaxSyncRuns)
  \/ Idle /\ \E videoId \in QueryVids : ReorderStart(videoId)
  \/ Idle /\ ClearData
  \/ Idle /\ GetUsage
  \/ Idle /\ ResetUsage
  \/ Idle /\ \E kind \in OtherMessages : UnknownMessage(kind)
  \/ SyncStep
  \/ ReorderStep
  \/ \E p \in Procs : ApiStep(p) \/ AuthStep(p)
  \/ Environment

Spec == Init /\ [][Next]_vars

\* a sync run and ranking requests handled as they arrive: their continuations
\* interleave at every await
NextOverlap ==
  \/ SyncStart(MaxOverlapSyncRuns)
  \/ \E videoId \in QueryVids : ReorderStart(videoId)
  \/ SyncStep
  \/ ReorderStep
  \/ \E p \in Procs : ApiStep(p) \/ AuthStep(p)
  \/ Tick

SpecOverlap == Init /\ [][NextOverlap]_vars

\* the same, with CLEAR_DATA messages handled at any await of the others
NextInterleaved ==
  \/ NextOverlap
  \/ ClearData

SpecInterleaved == Init /\ [][NextInterleaved]_vars

\* one sync run over a catalog whose listings take several pages
PagedPids == {"p1", "p2", "p3", "p4"}

InitPaging ==
  /\ now = MinutesPerDay - TokenBuffer
  /\ store \in {StoreSet(EmptyStore, cfg) : cfg \in InitConfigs}
  /\ remotePlaylists = <<"p1", "p2", "p3", "p4">>
  /\ remoteItems = [p \in PagedPids |->
                      CASE p = "p1" -> <<"v1", "v3", "v2">>
                        [] p = "p2" -> <<"v2">>
                        [] OTHER -> <<>>]
  /\ pc = [p \in Procs |-> "idle"]
  /\ call = [p \in Procs |-> NoCall]
  /\ auth = [p \in Procs |-> NoAuth]
  /\ sy = NoSync
  /\ ro = NoReorder
  /\ result = NoResult
  /\ progress = <<>>
  /\ tab = NoTab
  /\ hist = InitHist

NextPaging ==
  \/ SyncStart(MaxPagingRuns)
  \/ SyncStep
  \/ ApiStep("sync")
  \/ AuthStep("sync")
  \/ Tick
  \/ \E pid \in EditedPids : RemoteRemoveVideo(pid)
  \/ \E pid \in EditedPids : RemoteDeletePlaylist(pid)

SpecPaging == InitPaging /\ [][NextPaging]_vars

\* sync runs over a store that holds the bundle of an earlier run in which both
\* playlists were listed and analysed
PriorListing == <<"p1", "p2">>
PriorItems == [p \in Pids |-> IF p = "p1" THEN <<"v1", "v3">> ELSE <<"v2">>]

PriorCategories ==
  [p \in Range(PriorListing) |->
     MergeVideos(PriorItems[p], EmptyMap,
                 AddDetails(EmptyMap, VideosResponse(PriorItems[p])))]

PriorBundle ==
  SyncBundle([NoSync EXCEPT
    !.playlists = PriorListing,
    !.cats = PriorCategories,
    !.meta = [p \in Range(PriorListing) |-> PlaylistMeta(p)],
    !.stats = [i \in 1..Len(PriorListing) |->
                 [k |-> PriorListing[i],
                  v |-> computePlaylistStats(PriorCategories[PriorListing[i]])]],
    !.lastSync = 0])

InitResync ==
  /\ now = MinutesPerDay - TokenBuffer
  /\ store \in {StoreSet(st, PriorBundle) : st \in InitStores}
  /\ remotePlaylists = PriorListing
  /\ remoteItems = PriorItems
  /\ pc = [p \in Procs |-> "idle"]
  /\ call = [p \in Procs |-> NoCall]
  /\ auth = [p \in Procs |-> NoAuth]
  /\ sy = NoSync
  /\ ro = NoReorder
  /\ result = NoResult
  /\ progress = <<>>
  /\ tab = NoTab
  /\ hist = [InitHist EXCEPT !.usage0 = getApiUsage.count, !.lastClean = TRUE,
                             !.lastListed = PriorListing]

NextResync ==
  \/ SyncStart(MaxResyncRuns)
  \/ SyncStep
  \/ ApiStep("sync")
  \/ AuthStep("sync")
  \/ Tick
  \/ \E pid \in EditedPids : RemoteDeletePlaylist(pid)

SpecResync == InitResync /\ [][NextResync]_vars

\* ranking requests alone, over a store that holds the bundle of an earlier run
\* and, where OAuth is configured, possibly the token that run cached
CachedToken ==
  [f \in {"oauthToken", "oauthTokenExpiry"} |->
     IF f = "oauthToken" THEN "token" ELSE now + DefaultExpiresIn - TokenBuffer]

InitRequests ==
  /\ now = MinutesPerDay - TokenBuffer
  /\ store \in {StoreSet(st, PriorBundle) : st \in InitStores} \cup
               {StoreSet(StoreSet(st, PriorBundle), CachedToken) :
                  st \in {s \in InitStores : Has(s, "oauthClientId")}}
  /\ remotePlaylists = PriorListing
  /\ remoteItems = PriorItems
  /\ pc = [p \in Procs |-> "idle"]
  /\ call = [p \in Procs |-> NoCall]
  /\ auth = [p \in Procs |-> NoAuth]
  /\ sy = NoSync
  /\ ro = NoReorder
  /\ result = NoResult
  /\ progress = <<>>
  /\ tab = NoTab
  /\ hist = [InitHist EXCEPT !.usage0 = getApiUsage.count, !.lastClean = TRUE,
                             !.lastListed = PriorListing]

NextRequests ==
  \/ \E videoId \in QueryVids : ReorderRequest(videoId, MaxRequestRuns)
  \/ ReorderStep
  \/ ApiStep("reorder")
  \/ AuthReadCached("reorder")
  \/ Tick

SpecRequests == InitRequests /\ [][NextRequests]_vars

\* getAuthToken alone: one call, interactive or not, over a store with or
\* without a client id and with no token or one cached by an earlier call and
\* now up to MaxTokenAge minutes before or past its expiry
AuthStores ==
  LET base == {EmptyStore, StoreSet(EmptyStore, [f \in {"oauthClientId"} |-> "set"])}
      tokens == {[f \in {"oauthToken", "oauthTokenExpiry"} |->
                    IF f = "oauthToken" THEN "token"
                    ELSE MinutesPerDay - TokenBuffer + d] :
                   d \in (0 - MaxTokenAge)..MaxTokenAge}
  IN base \cup {StoreSet(st, t) : st \in base, t \in tokens}

InitAuth ==
  /\ now = MinutesPerDay - TokenBuffer
  /\ store \in AuthStores
  /\ remotePlaylists = <<>>
  /\ remoteItems = [p \in Pids |-> <<>>]
  /\ pc = [p \in Procs |-> "idle"]
  /\ call = [p \in Procs |-> NoCall]
  /\ auth \in {[p \in Procs |-> IF p = "sync" THEN GetAuthToken(interactive)
                                  ELSE NoAuth] : interactive \in BOOLEAN}
  /\ sy = NoSync
  /\ ro = NoReorder
  /\ result = NoResult
  /\ progress = <<>>
  /\ tab = NoTab
  /\ hist = InitHist

NextAuth == AuthStep("sync") \/ Tick

SpecAuth == InitAuth /\ [][NextAuth]_vars

\* the content script of a tab on a watch page: the modal's list loads, the
\* observer fires, invocations resume and the page navigates, in any order
Rankings ==
  {<<[title |-> "a", score |-> 1], [title |-> "b", score |-> 0]>>,
   <<[title |-> "b", score |-> 1], [title |-> "a", score |-> 0]>>}

ContentResponses ==
  {NoResponse, FailureResponse} \cup {SuccessResponse(r) : r \in Rankings}

PageVideos == {"v1", "v2", Null}

InitTab ==
  /\ now = MinutesPerDay - TokenBuffer
  /\ store = EmptyStore
  /\ remotePlaylists = <<>>
  /\ remoteItems = [p \in Pids |-> <<>>]
  /\ pc = [p \in Procs |-> "idle"]
  /\ call = [p \in Procs |-> NoCall]
  /\ auth = [p \in Procs |-> NoAuth]
  /\ sy = NoSync
  /\ ro = NoReorder
  /\ result = NoResult
  /\ progress = <<>>
  /\ hist = InitHist

InitContent ==
  /\ InitTab
  /\ tab \in {[NoTab EXCEPT !.videoId = videoId] : videoId \in PageVideos}

NextContent ==
  \/ ItemsLoaded
  \/ ObserverCallback
  \/ \E i \in 1..MaxInvocations : ModalStable(i)
  \/ \E i \in 1..MaxInvocations, response \in ContentResponses : ModalResponse(i, response)
  \/ \E videoId \in PageVideos : NavigateFinish(videoId)

SpecContent == InitContent /\ [][NextContent]_vars

\* reorderDOM alone: an invocation awaits the ranking with the items of a
\* list of up to MaxDomItems elements, titled or not, and the response brings
\* a ranking of up to MaxRanked playlists
DomTitles == {"a", "b", "c"}

DomLists ==
  UNION {{[i \in 1..n |-> Item(i, titles[i])] : titles \in [1..n -> DomTitles \cup {Null}]} :
           n \in 1..MaxDomItems}

DomRankings ==
  UNION {[1..n -> [title : DomTitles \ {"c"}, score : {0, 1}]] : n \in 0..MaxRanked}

InitDom ==
  /\ InitTab
  /\ tab \in {[NoTab EXCEPT !.processing = TRUE, !.attr = TRUE, !.videoId = "v1",
                            !.children = items,
                            !.inv = <<[stage |-> "response", items |-> items]>>] :
                items \in DomLists}

NextDom == \E response \in {SuccessResponse(r) : r \in DomRankings} : ModalResponse(1, response)

SpecDom == InitDom /\ [][NextDom]_vars

\* getVideoCategoryIds alone, on every list of up to MaxBatchIds ids (a video is
\* named by its number): sy.newIds holds videoIds, sy.batch the loop index i,
\* sy.newDetails the result, sy.ids the ids asked for so far
BatchInputs == {[k \in 1..n |-> k] : n \in 0..MaxBatchIds}

\* every third video is one videos.list does not return
BatchReturned(v) == v % 3 # 0

InitBatch ==
  /\ now = MinutesPerDay - TokenBuffer
  /\ store = StoreSet(EmptyStore, [f \in {"apiKey"} |-> "set"])
  /\ remotePlaylists = <<>>
  /\ remoteItems = [p \in Pids |-> <<>>]
  /\ pc = [p \in Procs |-> "idle"]
  /\ call = [p \in Procs |-> NoCall]
  /\ auth = [p \in Procs |-> NoAuth]
  /\ sy \in {[NoSync EXCEPT !.apiKey = "set", !.newIds = videoIds] :
               videoIds \in BatchInputs}
  /\ ro = NoReorder
  /\ result = NoResult
  /\ progress = <<>>
  /\ tab = NoTab
  /\ hist = InitHist

\* for (i = 0; i < videoIds.length; i += 50): the call of one batch goes out
BatchRequest ==
  /\ call.sync.stage = "none"
  /\ sy.batch < Len(sy.newIds)
  /\ LET batch == Batch(sy.newIds, sy.batch)
     IN /\ call' = [call EXCEPT !.sync = [NoCall EXCEPT !.stage = "fetch",
                                                         !.ep = "videos",
                                                         !.ids = batch]]
        /\ sy' = [sy EXCEPT !.ids = @ \o batch]
  /\ hist' = [hist EXCEPT !.netRequests = @ + 1]
  /\ UNCHANGED <<tab, store, now, remotePlaylists, remoteItems, pc, auth, ro, result,
                 progress>>

\* its response arrived: result[item.id] = {...} for the items returned
BatchResponse ==
  /\ call.sync.stage = "fetch"
  /\ LET items == SelectSeq(call.sync.ids, BatchReturned)
     IN sy' = [sy EXCEPT !.newDetails =
                           [v \in DOMAIN @ \cup Range(items) |-> [categoryId |-> "10"]],
                         !.batch = @ + BatchSize]
  /\ call' = [call EXCEPT !.sync = NoCall]
  /\ hist' = [hist EXCEPT !.okResponses = @ + 1]
  /\ UNCHANGED <<tab, store, now, remotePlaylists, remoteItems, pc, auth, ro, result,
                 progress>>

NextBatch == BatchRequest \/ BatchResponse

SpecBatch == InitBatch /\ [][NextBatch]_vars

\* the statistics engine alone, on every resolved item set of up to MaxVideos
\* videos: sy.cats holds the argument of computePlaylistStats, its values in
\* insertion order (a video is named by its position in the listing), and
\* sy.stats receives the record
StatsEntries ==
  {[categoryId |-> cid,
    category |-> IF cid # Null THEN getCategoryLabel(cid) ELSE "Unknown"] :
     cid \in CategoryIds \cup {Null}}

StatsInputs == UNION {[1..n -> StatsEntries] : n \in 0..MaxVideos}

InitStats ==
  /\ now = MinutesPerDay - TokenBuffer
  /\ store = EmptyStore
  /\ remotePlaylists = <<"p1">>
  /\ remoteItems = [p \in Pids |-> <<>>]
  /\ pc = [p \in Procs |-> "idle"]
  /\ call = [p \in Procs |-> NoCall]
  /\ auth = [p \in Procs |-> NoAuth]
  /\ sy \in {[NoSync EXCEPT !.playlists = <<"p1">>, !.i = 1,
                             !.cats = Put(EmptyMap, "p1", videos)] :
               videos \in StatsInputs}
  /\ ro = NoReorder
  /\ result = NoResult
  /\ progress = <<>>
  /\ tab = NoTab
  /\ hist = InitHist

\* playlistStatsMap[pid] = computePlaylistStats(videoCategories)
AnalysePlaylist ==
  LET pid == sy.playlists[sy.i]
  IN /\ ~OHas(sy.stats, pid)
     /\ sy' = [sy EXCEPT !.stats = OPut(@, pid, computePlaylistStats(sy.cats[pid]))]
     /\ UNCHANGED <<tab, store, now, remotePlaylists, remoteItems, pc, call, auth, ro,
                    result, progress>>
     /\ UNCHANGED hist

SpecStats == InitStats /\ [][AnalysePlaylist]_vars

\* the statistics and the ranking engine on every listing of up to
\* MaxRankPlaylists playlists with item sets of up to MaxRankVideos videos and
\* titles in any order: the analysis of a sync run without its requests, then
\* ranking requests for a category
RankPids == <<"p1", "p2", "p3", "p4">>
RankTitles == {"a", "b"}
RankCategories == CategoryIds

\* the videos are of Music or of one of the two Comedy categories
RankEntries == {e \in StatsEntries : e.categoryId \in {"10", "23", "34"}}

RankItemSets == UNION {[1..n -> RankEntries] : n \in 0..MaxRankVideos}

RankListings ==
  {SubSeq(RankPids, 1, n) : n \in 1..Min(MaxRankPlaylists, Len(RankPids))}

InitRank ==
  /\ now = MinutesPerDay - TokenBuffer
  /\ store = EmptyStore
  /\ remotePlaylists = <<>>
  /\ remoteItems = [p \in Pids |-> <<>>]
  /\ pc = [p \in Procs |-> "idle"]
  /\ call = [p \in Procs |-> NoCall]
  /\ auth = [p \in Procs |-> NoAuth]
  /\ \E listing \in RankListings :
       \E titles \in [Range(listing) -> RankTitles],
          items \in [Range(listing) -> RankItemSets] :
         sy = [NoSync EXCEPT !.playlists = listing,
                             !.meta = [p \in Range(listing) |-> [title |-> titles[p]]],
                             !.cats = items]
  /\ ro = NoReorder
  /\ result = NoResult
  /\ progress = <<>>
  /\ tab = NoTab
  /\ hist = InitHist

\* playlistStatsMap filled in listing order
RECURSIVE AnalyseAll(_, _, _)
AnalyseAll(listing, cats, acc) ==
  IF listing = <<>> THEN acc
  ELSE AnalyseAll(Tail(listing), cats,
                  OPut(acc, Head(listing), computePlaylistStats(cats[Head(listing)])))

\* the loop over the playlists with every delta resolved, then the bundle stored
RankAnalyse ==
  /\ ~Has(store, "playlistStats")
  /\ LET s == [sy EXCEPT !.stats = AnalyseAll(sy.playlists, sy.cats, <<>>)]
     IN /\ sy' = s
        /\ store' = StoreSet(store, SyncBundle(s))
  /\ UNCHANGED <<tab, now, remotePlaylists, remoteItems, pc, call, auth, ro, result,
                 progress, hist>>

\* handleReorder from the stored data on, for a video of category categoryId
RankQuery(categoryId) ==
  /\ Has(store, "playlistStats")
  /\ hist.reorderRuns < MaxRankQueries
  /\ hist' = [hist EXCEPT !.reorderRuns = @ + 1]
  /\ result' = [Success("GET_REORDERED_PLAYLISTS") EXCEPT
                  !.videoCategoryId = categoryId,
                  !.reordered = reorderPlaylists(categoryId, PlaylistData)]
  /\ UNCHANGED <<tab, store, now, remotePlaylists, remoteItems, pc, call, auth, sy, ro,
                 progress>>

NextRank ==
  \/ RankAnalyse
  \/ \E categoryId \in RankCategories : RankQuery(categoryId)

SpecRank == InitRank /\ [][NextRank]_vars

-----------------------------------------------------------------------------
(* Properties of the usage counter and the quota guard *)

\* the count the store holds for day d
UsageOn(st, d) ==
  IF Has(st, "apiUsage") /\ st.apiUsage.date = d THEN st.apiUsage.count ELSE 0

\* C1: whenever today's stored usage count is at least 9500 when apiCall reads
\* it, the call fails with the quota error, no network request is issued and
\* the usage counter is left unchanged.
C1_QuotaGuard ==
  [][\A p \in Procs :
       (call[p].stage = "guard" /\ call'[p] # call[p] /\ getApiUsage.count >= 9500)
         => /\ call'[p].stage = "failed"
            /\ call'[p].err = "quota"
            /\ hist'.netRequests = hist.netRequests
            /\ StoredUsage(store') = StoredUsage(store)]_vars

\* an apiCall was refused by the guard with the count at 9500
C1_Blocked ==
  \E p \in Procs :
    /\ call[p].stage = "failed" /\ call[p].err = "quota"
    /\ getApiUsage.count >= 9500
    /\ hist.netRequests > 0

\* C2: with one caller at a time, the write that ends an apiCall whose response
\* was a success raises the stored count of the day it is booked on by exactly
\* 1; every other step of an apiCall (blocked by the guard, rejected for missing
\* credentials, answered with a non-success status) leaves the counter unchanged.
C2_CountedOnce ==
  [][\A p \in Procs :
       call'[p] # call[p] =>
         IF call[p].stage = "incWrite"
         THEN /\ Has(store', "apiUsage")
              /\ UsageOn(store', store'.apiUsage.date)
                   = UsageOn(store, store'.apiUsage.date) + 1
         ELSE StoredUsage(store') = StoredUsage(store)]_vars

\* a success was counted and a non-success response was not
C2_Counted ==
  \E p \in Procs :
    /\ call[p].stage = "done"
    /\ hist.apiErrors > 0 /\ hist.okResponses > 1
    /\ hist.steady
    /\ getApiUsage.count = hist.usage0 + hist.okResponses

\* C3: with one caller at a time and a stored count that starts at or below
\* 9500, the stored count never exceeds 9500.
C3_NeverAboveLimit ==
  /\ UsageOn(store, store.apiUsage.date) <= 9500
  /\ getApiUsage.count <= 9500

\* the count reached 9500 by a counted call
C3_AtLimit ==
  /\ Has(store, "apiUsage") /\ store.apiUsage.count = 9500
  /\ hist.okResponses > 0

\* C4 as stated: as long as the calendar day does not change, no operation of
\* the router or the client makes the count returned by getApiUsage smaller.
C4_NeverDecremented ==
  [][todayKey' = todayKey => getApiUsage'.count >= getApiUsage.count]_vars

\* C4 amended: with one message handled at a time and the calendar day
\* unchanged, the only step that makes the count returned by getApiUsage
\* smaller is the RESET_API_USAGE message, which sets it to 0.
C4_OnlyResetLowers ==
  [][(todayKey' = todayKey /\ getApiUsage'.count < getApiUsage.count)
       => (ResetUsage /\ getApiUsage'.count = 0)]_vars

\* RESET_API_USAGE was answered after calls were counted on the same day
C4_ResetAfterCalls ==
  /\ result.msg = "RESET_API_USAGE"
  /\ hist.okResponses > 0 /\ hist.ticks = 0
  /\ getApiUsage.count = 0

\* C5: when a sync run and ranking requests are handled interleaved and the
\* day does not change, the count has grown, once all handlers have returned,
\* by exactly the number of success responses received.
C5_EveryCallTracked ==
  (Idle /\ hist.steady) => getApiUsage.count = hist.usage0 + hist.okResponses

-----------------------------------------------------------------------------
(* Properties of the delta reconciler and the sync pipeline *)

\* the keys of the cache the run loaded for playlist pid
LoadedKeys(pid) == IF pid \in DOMAIN sy.cached THEN DOMAIN sy.cached[pid] ELSE {}

\* the keys of the persisted index of playlist pid
PersistedKeys(pid) ==
  IF Has(store, "playlistCategories") /\ pid \in DOMAIN store.playlistCategories
  THEN DOMAIN store.playlistCategories[pid] ELSE {}

\* a videos.list call of the sync run is in flight
DetailCallInFlight == call.sync.ep = "videos" /\ call.sync.stage # "none"

\* C6: the id list handed to getVideoCategoryIds is exactly the current
\* listing's ids that are not keys of the incoming cache, in listing order: it
\* shares no id with the cache's keys, whatever the cached entries contain.
C6_OnlyUncachedResolved ==
  pc.sync = "details" =>
    LET keys == LoadedKeys(sy.playlists[sy.i])
    IN /\ sy.newIds = SelectSeq(sy.ids, LAMBDA v : v \notin keys)
       /\ Range(sy.newIds) \cap keys = {}
       /\ DetailCallInFlight => Range(call.sync.ids) \subseteq Range(sy.newIds)

\* ids are resolved for a playlist whose cache holds a listed id without a category
C6_DeltaWithPlaceholder ==
  /\ pc.sync = "details" /\ DetailCallInFlight
  /\ \E v \in LoadedKeys(sy.playlists[sy.i]) \cap Range(sy.ids) :
       sy.cached[sy.playlists[sy.i]][v].categoryId = Null

\* C7: the key set of the merged mapping a reconciliation returns equals the
\* set of ids of the listing: every listed id has an entry and every cached id
\* absent from the listing is pruned.
C7_MergedKeysAreListing ==
  \A pid \in DOMAIN sy.cats : DOMAIN sy.cats[pid] = Range(sy.log[pid].ids)

\* a merge pruned a cached id and kept an entry without a category
C7_PrunedAndPlaceholder ==
  \E pid \in DOMAIN sy.cats :
    /\ LoadedKeys(pid) \ DOMAIN sy.cats[pid] # {}
    /\ \E v \in DOMAIN sy.cats[pid] : sy.cats[pid][v].categoryId = Null

\* C8: reconciling a listing against a cache that holds all listed ids issues
\* no videos.list call, reports apiCalls = 0 and returns the cache restricted
\* to the listed ids; reconciling the listing again against that result
\* returns the same mapping, again with no id to resolve.
C8_FullyCachedIsFree ==
  \A pid \in DOMAIN sy.cats :
    LET l == sy.log[pid]
        merged == sy.cats[pid]
    IN Range(l.ids) \subseteq LoadedKeys(pid) =>
         /\ l.batches = 0
         /\ l.apiCalls = 0
         /\ merged = [v \in Range(l.ids) |-> sy.cached[pid][v]]
         /\ NewIds(l.ids, merged) = <<>>
         /\ DeltaApiCalls(NewIds(l.ids, merged)) = 0
         /\ MergeVideos(l.ids, merged, EmptyMap) = merged

\* a non-empty listing was reconciled against a cache that holds all its ids
C8_FullyCached ==
  \E pid \in DOMAIN sy.cats :
    /\ sy.log[pid].ids # <<>>
    /\ Range(sy.log[pid].ids) \subseteq LoadedKeys(pid)

\* C9 as stated: in the sync that follows a sync that persisted with no caught
\* playlist, videos.list is asked only for ids absent from the persisted index
\* of the playlist reconciled, and not at all when the remote catalog has not
\* changed since the earlier sync started.
C9_SecondSyncDelta ==
  (sy.followsClean /\ DetailCallInFlight) =>
    /\ Range(call.sync.ids) \cap PersistedKeys(call.sync.pid) = {}
    /\ ~(sy.unchangedBefore /\ hist.quiet)

\* C9 amended: ... and not at all when the remote catalog has not changed and
\* the sync lists no playlist the earlier sync did not list.
C9_DeltaAfterCleanSync ==
  (sy.followsClean /\ DetailCallInFlight) =>
    /\ Range(call.sync.ids) \cap PersistedKeys(call.sync.pid) = {}
    /\ ~(/\ sy.unchangedBefore /\ hist.quiet
          /\ Range(sy.playlists) \subseteq Range(hist.lastListed))

\* the following sync resolves an id added to a playlist the index holds
C9_NewVideoResolved ==
  /\ sy.followsClean /\ DetailCallInFlight /\ call.sync.stage = "fetch"
  /\ PersistedKeys(call.sync.pid) # {}
  /\ call.sync.ids # <<>>

\* C10: when getPlaylistVideoCategoriesDelta throws for a playlist, that
\* playlist gets the Empty stats record, the loop goes on with the next
\* playlist, and the run, once past the listing, ends only by persisting the
\* bundle and answering success with the number of listed playlists.
C10_FailureIsolated ==
  [][/\ (pc.sync \in {"listItems", "details"} /\ call.sync.stage = "failed"
          /\ sy' # sy) =>
          LET pid == sy.playlists[sy.i]
          IN /\ OHas(sy'.stats, pid)
             /\ OGet(sy'.stats, pid).focusLabel = "Empty"
             /\ OGet(sy'.stats, pid).totalVideos = 0
             /\ OGet(sy'.stats, pid).dominantCategoryId = Null
             /\ IF sy.i < Len(sy.playlists)
                THEN pc'.sync = "listItems" /\ sy'.i = sy.i + 1
                ELSE pc'.sync = "persist"
     /\ pc.sync = "persist" =>
          \A pid \in Range(sy.playlists) :
            /\ OHas(sy.stats, pid)
            /\ pid \in sy.failedPids => OGet(sy.stats, pid).focusLabel = "Empty"
     /\ (pc.sync \in {"loadCache", "listItems", "details", "persist"}
          /\ pc'.sync = "idle") =>
          /\ pc.sync = "persist"
          /\ result'.success
          /\ result'.totalPlaylists = Len(sy.playlists)
          /\ Has(store', "playlistStats") /\ store'.playlistStats = sy.stats]_vars

\* the first playlist failed and a later one was analysed before persisting
C10_FailedThenAnalysed ==
  /\ pc.sync = "persist"
  /\ \E i, j \in 1..Len(sy.playlists) :
       /\ i < j
       /\ sy.playlists[i] \in sy.failedPids
       /\ sy.playlists[j] \notin sy.failedPids
       /\ OGet(sy.stats, sy.playlists[j]).totalVideos > 0

-----------------------------------------------------------------------------
(* Properties of the sync run's listing step *)

\* the sync run resumes after its listing call threw
ListingFailed ==
  /\ pc.sync \in {"listUser", "listChannel"}
  /\ call.sync.stage = "failed"
  /\ pc' # pc \/ call'.sync # call.sync

\* the message of the error the sync run's call threw
ThrownMessage ==
  IF call.sync.err = "quota" THEN "Daily API limit approaching"
  ELSE "YouTube API error"

\* the run returns the failure carrying the thrown error; nothing is stored
ListingErrorReturned ==
  /\ pc'.sync = "idle"
  /\ result'.msg = "SYNC_START" /\ ~result'.success
  /\ result'.error = ThrownMessage
  /\ store' = store

\* C11 as stated: when the listing call fails, on the token-based or the
\* key-based path, handleSync returns a failure carrying that error, makes no
\* other listing attempt in its place, and persists nothing.
C11_ListingFailureFatal == [][ListingFailed => ListingErrorReturned]_vars

\* C11 amended: a failure of the key-based listing is returned as the run's
\* failure, with no other listing attempt and nothing persisted; a failure of
\* the token-based listing is caught: the key-based listing is attempted in
\* its place when an API key and a channel id are configured, otherwise the
\* run fails with the missing-credentials message; nothing is persisted by
\* either step.
C11_KeyListingFailureFatal ==
  [][ListingFailed =>
       IF pc.sync = "listChannel" THEN ListingErrorReturned
       ELSE /\ store' = store
            /\ IF sy.apiKey # Null /\ sy.channelId # Null
               THEN /\ pc'.sync = "listChannel"
                    /\ call'.sync.ep = "playlistsChannel"
                    /\ call'.sync.stage = "guard"
               ELSE /\ pc'.sync = "idle"
                    /\ ~result'.success
                    /\ result'.error =
                         "Enter an OAuth Client ID, or an API Key + Channel ID."]_vars

\* the key-based listing is under way after the token-based listing threw
C11_FellBack ==
  /\ pc.sync = "listChannel" /\ sy.token # Null
  /\ hist.apiErrors > 0
  /\ call.sync.stage = "fetch"

\* a step on which handleSync returns its response
SyncReturns ==
  /\ pc'.sync = "idle"
  /\ pc.sync # "idle" \/ hist'.syncRuns # hist.syncRuns

\* C12: with one message handled at a time, a sync run that returns failure
\* leaves globalStats, playlistStats, playlistMeta, playlistCategories and
\* lastSync exactly as they were when the run started; a run that returns
\* success has stored all five keys with the values the run computed.
C12_AllOrNothing ==
  [][SyncReturns =>
       IF result'.success
       THEN /\ BundleKeys \subseteq store'.keys
            /\ store'.playlistStats = sy.stats
            /\ store'.playlistMeta = sy.meta
            /\ store'.playlistCategories = sy.cats
            /\ store'.lastSync = sy.lastSync
            /\ store'.globalStats.totalPlaylists = Len(sy.playlists)
       ELSE BundleOf(store') =
              (IF pc.sync = "idle" THEN BundleOf(store) ELSE sy.bundle0)]_vars

\* a run failed at its listing with the bundle of an earlier run in the store
C12_FailedOverBundle ==
  /\ result.msg = "SYNC_START" /\ ~result.success
  /\ hist.syncRuns = 2
  /\ BundleKeys \subseteq store.keys
  /\ Len(store.playlistStats) > 0

\* the percentages a run over n playlists sends when it runs to its end
ExpectedProgress(n) ==
  <<5, 15>> \o [i \in 1..n |-> 15 + (2 * (i - 1) * 70 + n) \div (2 * n)]
            \o <<90, 95, 100>>

IsPrefix(s, t) == Len(s) <= Len(t) /\ s = SubSeq(t, 1, Len(s))

\* C13: the percentages a sync run has sent are non-decreasing and within
\* 0..100, and they are sent in the order of the steps: they are a prefix of
\* 5, 15, one value per playlist in listing order, 90, 95, 100, and the whole
\* of it when the run succeeds; the per-playlist values are non-decreasing and
\* between 15 and 90 for every number of playlists up to MaxListed.
C13_ProgressMonotone ==
  /\ \A i \in 1..Len(progress) : progress[i] \in 0..100
  /\ \A i \in 1..Len(progress) - 1 : progress[i] <= progress[i + 1]
  /\ Len(sy.playlists) > 0 =>
       IsPrefix(progress, ExpectedProgress(Len(sy.playlists)))
  /\ (result.msg = "SYNC_START" /\ result.success) =>
       progress = ExpectedProgress(result.totalPlaylists)
  /\ \A n \in 1..MaxListed :
       /\ \A i \in 1..n : PlaylistPct(i, n) \in 15..90
       /\ \A i \in 1..n - 1 : PlaylistPct(i, n) <= PlaylistPct(i + 1, n)

\* a run over two playlists sent all its percentages
C13_FullBar ==
  /\ result.msg = "SYNC_START" /\ result.success
  /\ result.totalPlaylists = 2
  /\ Len(progress) = 7 /\ progress[4] > progress[3]

\* no API key, or no channel id, in the store
Keyless == StoreGet("apiKey") = Null \/ StoreGet("channelId") = Null

\* the run finds no credentials: at its start with no OAuth client id, or when
\* getAuthToken returned no token
NoCredentialsFound ==
  /\ Keyless
  /\ \/ /\ pc.sync = "idle" /\ hist'.syncRuns # hist.syncRuns
        /\ StoreGet("oauthClientId") = Null
     \/ /\ pc.sync = "auth" /\ pc' # pc
        /\ auth.sync.stage = "done" /\ auth.sync.token = Null

TokenObtained ==
  /\ pc.sync = "auth" /\ pc' # pc
  /\ auth.sync.stage = "done" /\ auth.sync.token # Null

\* the run starts the key-based listing
ChannelListingStarts == pc'.sync = "listChannel" /\ pc.sync # "listChannel"

\* C15 as stated: when a token is obtained the playlists are listed with
\* getUserPlaylists, and the key-based listing is started only when the run
\* has no token.
C15_TokenFirst ==
  [][/\ TokenObtained =>
          pc'.sync = "listUser" /\ call'.sync.ep = "playlistsMine"
     /\ ChannelListingStarts => sy'.token = Null]_vars

\* C15 amended: ... and the key-based listing is started only when the run
\* has no token or its token-based listing has just failed.
C15_TokenFirstThenFallback ==
  [][/\ TokenObtained =>
          pc'.sync = "listUser" /\ call'.sync.ep = "playlistsMine"
     /\ ChannelListingStarts =>
          \/ sy'.token = Null
          \/ pc.sync = "listUser" /\ call.sync.stage = "failed"]_vars

\* the token-based listing is under way although a key and a channel id are set
C15_TokenPathChosen ==
  /\ pc.sync = "listUser" /\ call.sync.ep = "playlistsMine"
  /\ call.sync.stage = "fetch"
  /\ sy.apiKey # Null /\ sy.channelId # Null

-----------------------------------------------------------------------------
(* Properties of the order of remote calls *)

\* requests sent that have not been answered yet
Outstanding == hist.netRequests - hist.okResponses - hist.apiErrors

\* C16: with one message handled at a time, at most one remote request is
\* outstanding at any time; a call made for a playlist is made for the
\* playlist the loop is at; the loop moves from playlist i to playlist i + 1
\* only, with the calls of playlist i settled and no request outstanding; and
\* the stats are recorded in listing order.
C16_OneCallInListingOrder ==
  [][/\ Outstanding \in 0..1
     /\ Outstanding = 1 <=> \E p \in Procs : call[p].stage = "fetch"
     /\ (call.sync.stage # "none" /\ call.sync.pid # Null) =>
          /\ pc.sync \in {"listItems", "details"}
          /\ call.sync.pid = sy.playlists[sy.i]
     /\ (sy'.i # sy.i /\ pc'.sync # "idle") =>
          /\ sy'.i = sy.i + 1
          /\ call.sync.stage \in {"none", "done", "failed"}
          /\ Outstanding = 0
     /\ pc.sync = "persist" =>
          [k \in 1..Len(sy.stats) |-> sy.stats[k].k] = sy.playlists]_vars

\* a request for the second playlist is pending after the first was analysed
C16_SecondAfterFirst ==
  /\ pc.sync = "listItems" /\ sy.i = 2
  /\ call.sync.stage = "fetch" /\ call.sync.pid = sy.playlists[2]
  /\ sy.playlists[1] \in DOMAIN sy.cats
  /\ Outstanding = 1

-----------------------------------------------------------------------------
(* Properties of the responses *)

MessageTypes ==
  {"SYNC_START", "GET_REORDERED_PLAYLISTS", "CLEAR_DATA", "GET_API_USAGE",
   "RESET_API_USAGE"} \cup OtherMessages

\* a success carries no error; a failure carries a message and no payload
WellFormed(res) ==
  /\ res.msg \in MessageTypes
  /\ res.success \in BOOLEAN
  /\ res.success => res.error = Null
  /\ ~res.success =>
       /\ res.error # Null
       /\ res.totalPlaylists = 0 /\ res.reordered = <<>>
       /\ res.videoCategoryId = Null

\* C17: every response the worker sends (sync, ranking, clear-data, usage,
\* reset, unknown type, null message) is either a success without error or a
\* failure carrying an error message, and a handler that returns has sent one.
C17_AlwaysAnswers ==
  [][/\ result' # NoResult => WellFormed(result')
     /\ \A p \in Procs :
          (pc[p] # "idle" /\ pc'[p] = "idle") =>
            /\ result' # NoResult
            /\ result'.msg = IF p = "sync" THEN "SYNC_START"
                                ELSE "GET_REORDERED_PLAYLISTS"
     /\ (Idle /\ pc' = pc /\ (result' # result \/ store' # store)) =>
          result' # NoResult]_vars

\* the outer catch of handleSync answered with the message of an upstream error
C17_UpstreamFailureAnswered ==
  /\ result.msg = "SYNC_START" /\ ~result.success
  /\ result.error = "YouTube API error"

-----------------------------------------------------------------------------
(* Properties of the statistics engine *)

\* the item set computePlaylistStats was given, and the record it returned
StatsIn == sy.cats[sy.playlists[1]]
StatsOut == OGet(sy.stats, sy.playlists[1])
StatsDone == sy.playlists # <<>> /\ OHas(sy.stats, sy.playlists[1])

\* C18: for every item set, the record computePlaylistStats returns has a
\* dominantRatio within [0, 1] (dominantCount <= totalVideos, the ratio being
\* dominantCount / totalVideos, and 0 for no videos), counts every video given,
\* and the values of its frequency table sum to totalVideos.
C18_RatioAndSum ==
  StatsDone =>
    LET st == StatsOut
    IN /\ st.totalVideos = Len(StatsIn)
       /\ st.dominantRatio.den > 0
       /\ 0 <= st.dominantRatio.num
       /\ st.dominantRatio.num <= st.dominantRatio.den
       /\ st.dominantCount <= st.totalVideos
       /\ st.dominantRatio.num * st.totalVideos = st.dominantCount * st.dominantRatio.den
       /\ SeqSum(OValues(st.categoryFrequency)) = st.totalVideos

\* two category ids of one label and a video without category were counted
C18_SharedLabelCounted ==
  /\ StatsDone
  /\ {"23", "34", Null} \subseteq {StatsIn[i].categoryId : i \in 1..Len(StatsIn)}
  /\ OGet(StatsOut.categoryFrequency, "Comedy") = 2
  /\ OGet(StatsOut.categoryFrequency, "Unknown") = 2
  /\ StatsOut.dominantCount < StatsOut.totalVideos

\* the most frequent classifications of an item set
TopKeys(videos) ==
  LET freq == CategoryFreq(videos)
  IN {c \in DOMAIN freq : \A d \in DOMAIN freq : freq[d] <= freq[c]}

\* the one of them observed first in listing order
FirstSeenTop(videos) ==
  LET i == CHOOSE i \in 1..Len(videos) :
             /\ FreqKey(videos[i]) \in TopKeys(videos)
             /\ \A j \in 1..(i - 1) : FreqKey(videos[j]) \notin TopKeys(videos)
  IN FreqKey(videos[i])

\* C19: when several classifications share the highest frequency of an item
\* set, the dominant classification is the one observed first among the items
\* in listing order.
C19_FirstSeenWins ==
  (StatsDone /\ Len(StatsIn) > 0) =>
    StatsOut.dominantCategoryId = FirstSeenTop(StatsIn)

\* what the scan over Object.entries(freq) yields instead: of the most
\* frequent classifications, the category id of lowest number, and "unknown"
\* only when no category id is among them
DominantIsLowestTopId ==
  (StatsDone /\ Len(StatsIn) > 0) =>
    LET top == TopKeys(StatsIn)
        dom == StatsOut.dominantCategoryId
    IN /\ dom \in top
       /\ \A c \in top \cap CategoryIds :
            dom \in CategoryIds /\ CategoryNumber[dom] <= CategoryNumber[c]

\* C20: the focus label is a function of dominantCount / totalVideos with
\* thresholds inclusive at their lower edge: Empty for no videos (the ratio is
\* then 0 and nothing is divided by 0), Highly Focused from 4/5, Focused from
\* 1/2 to below 4/5, Mixed below 1/2.
C20_FocusThresholds ==
  StatsDone =>
    LET st == StatsOut
        n == Len(StatsIn)
        c == st.dominantCount
    IN /\ n = 0 =>
            /\ st.focusLabel = "Empty"
            /\ st.dominantRatio.num = 0 /\ st.dominantRatio.den # 0
       /\ n > 0 =>
            /\ st.dominantRatio = [num |-> c, den |-> n]
            /\ (5 * c >= 4 * n) => st.focusLabel = "Highly Focused"
            /\ (2 * c >= n /\ 5 * c < 4 * n) => st.focusLabel = "Focused"
            /\ (2 * c < n) => st.focusLabel = "Mixed"

\* a ratio of exactly 4/5
C20_FourOfFive ==
  /\ StatsDone
  /\ Len(StatsIn) = 5 /\ StatsOut.dominantCount = 4
  /\ StatsOut.focusLabel = "Highly Focused"

-----------------------------------------------------------------------------
(* Properties of the global statistics and of the ranking *)

\* the count of a label summed over the frequency tables of the records
LabelTotal(records, l) ==
  SeqSum([i \in 1..Len(records) |->
            IF OHas(records[i].v.categoryFrequency, l)
            THEN OGet(records[i].v.categoryFrequency, l) ELSE 0])

Descending(dist) ==
  \A i, j \in 1..Len(dist) : i < j => dist[i].v >= dist[j].v

\* C21: computeGlobalStats returns totalPlaylists equal to the number of
\* per-playlist records, totalVideos equal to the sum of their totalVideos, and
\* a distribution holding each label of a record once, with the sum of that
\* label's counts over all records, in descending order of count.
C21_GlobalAggregation ==
  Has(store, "globalStats") =>
    LET g == store.globalStats
        records == store.playlistStats
        dist == g.categoryDistribution
    IN /\ g.totalPlaylists = Len(records)
       /\ g.totalVideos = SeqSum([i \in 1..Len(records) |-> records[i].v.totalVideos])
       /\ \A i, j \in 1..Len(dist) : dist[i].k = dist[j].k => i = j
       /\ OKeys(dist) = UNION {OKeys(records[i].v.categoryFrequency) :
                                 i \in 1..Len(records)}
       /\ \A i \in 1..Len(dist) : dist[i].v = LabelTotal(records, dist[i].k)
       /\ Descending(dist)

\* a label counted in two playlists overtakes the label met first
C21_LaterLabelLeads ==
  /\ Has(store, "globalStats")
  /\ Len(store.playlistStats) >= 2
  /\ LET dist == store.globalStats.categoryDistribution
         first == store.playlistStats[1].v.categoryFrequency
     IN /\ Len(dist) >= 2 /\ Len(first) >= 1
        /\ dist[1].v > dist[2].v
        /\ dist[1].k # first[1].k
        /\ \E i, j \in 1..Len(store.playlistStats) :
             /\ i # j
             /\ OHas(store.playlistStats[i].v.categoryFrequency, dist[1].k)
             /\ OHas(store.playlistStats[j].v.categoryFrequency, dist[1].k)

\* a ranking answer is there
Ranked == result.msg = "GET_REORDERED_PLAYLISTS" /\ result.success

TitleOrder == [t \in RankTitles |-> IF t = "a" THEN 1 ELSE 2]

\* C24: playlists are sorted by score descending, then alphabetically by title
\* on ties: of two playlists of equal score in the output, the one with the
\* alphabetically smaller title comes first.
C24_TiesAlphabetical ==
  Ranked =>
    \A i, j \in 1..Len(result.reordered) :
      (i < j /\ result.reordered[i].score = result.reordered[j].score) =>
        TitleOrder[result.reordered[i].title] <= TitleOrder[result.reordered[j].title]

\* C25: playlistContainsCategory(q, getCategoryDistribution(items)) is true
\* exactly when at least one item has category id q, whether or not q is the
\* dominant category; for an empty item set it is false for every q.
C25_ContainsAnyMatch ==
  sy.playlists # <<>> =>
    \A q \in CategoryIds :
      /\ playlistContainsCategory(q, getCategoryDistribution(StatsIn))
           <=> (\E i \in 1..Len(StatsIn) : StatsIn[i].categoryId = q)
      /\ Len(StatsIn) = 0 =>
           ~playlistContainsCategory(q, getCategoryDistribution(StatsIn))

\* one video in five is of a category that is not the dominant one
C25_MinorityContained ==
  /\ StatsDone
  /\ Len(StatsIn) = 5
  /\ StatsOut.dominantCategoryId = "10" /\ StatsOut.dominantCount = 4
  /\ StatsIn[5].categoryId = "20"
  /\ playlistContainsCategory("20", getCategoryDistribution(StatsIn))

-----------------------------------------------------------------------------
(* Properties of the stored data *)

\* C26: CLEAR_DATA removes all stored data: once handleClearData has answered
\* with success, no key of the storage schema (credentials, OAuth token, sync
\* bundle, lastSync, apiUsage) remains in chrome.storage.local.
C26_ClearRemovesAll ==
  (result.msg = "CLEAR_DATA" /\ result.success) => store.keys \cap StoreKeys = {}

-----------------------------------------------------------------------------
(* Properties of the paginated listings *)

\* a continuation of the sync run takes its step
SyncMoves == pc' # pc \/ call' # call \/ sy' # sy

\* a page of a playlists listing is handled: another request with the token of
\* the response, or the listing returns all pages in order
PlaylistsPageHandled(phase) ==
  (pc.sync = phase /\ call.sync.stage = "done" /\ SyncMoves) =>
    LET all == sy.all \o call.sync.items
    IN IF call.sync.nextPageToken # 0
       THEN /\ pc'.sync = phase
            /\ call'.sync.ep = call.sync.ep
            /\ call'.sync.pageToken = call.sync.nextPageToken
            /\ call'.sync.stage = "guard"
            /\ sy'.all = all
       ELSE /\ pc'.sync # phase
            /\ pc'.sync # "idle" => sy'.playlists = all
            /\ pc'.sync = "idle" => all = <<>>

ItemsPageHandled ==
  (pc.sync = "listItems" /\ call.sync.stage = "done" /\ SyncMoves) =>
    LET pid == sy.playlists[sy.i]
        ids == sy.log[pid].ids \o call.sync.items
    IN /\ sy.log[pid].pages = sy.log[pid].got + 1
       /\ sy'.log[pid].ids = ids
       /\ sy'.log[pid].got = sy.log[pid].got + 1
       /\ IF call.sync.nextPageToken # 0
          THEN /\ pc'.sync = "listItems" /\ sy'.i = sy.i
               /\ call'.sync.ep = "playlistItems" /\ call'.sync.pid = pid
               /\ call'.sync.pageToken = call.sync.nextPageToken
               /\ call'.sync.stage = "guard"
               /\ sy'.log[pid].pages = sy.log[pid].pages + 1
          ELSE /\ pc'.sync # "listItems" \/ sy'.i # sy.i
               /\ sy'.log[pid].pages = sy.log[pid].pages
               /\ pc'.sync = "details" => sy'.ids = ids
               /\ pc'.sync # "details" => DOMAIN sy'.cats[pid] = Range(ids)

\* C27: a paginated listing issues one request per page, each with the
\* continuation token of the previous response, and at the first response
\* without a token it stops and returns the items of all pages in the order
\* the pages came: the listing ends as soon as the remote serves such a page.
C27_Pagination ==
  [][/\ PlaylistsPageHandled("listUser")
     /\ PlaylistsPageHandled("listChannel")
     /\ ItemsPageHandled]_vars

\* the playlists and the videos of the first playlist came on two pages each
C27_TwoPagesEach ==
  /\ Len(sy.playlists) > PageLimit
  /\ "p1" \in DOMAIN sy.log
  /\ sy.log["p1"].got = 2 /\ sy.log["p1"].pages = 2
  /\ sy.log["p1"].ids = <<"v1", "v3", "v2">>

-----------------------------------------------------------------------------
(* Properties of the detail resolution *)

\* getVideoCategoryIds has returned
BatchesDone == call.sync.stage = "none" /\ sy.batch >= Len(sy.newIds)

\* C28: resolving N ids issues exactly ceil(N / 50) calls (none for an empty
\* list), each with at most 50 ids, the calls together asking for every id
\* once and in order; an id the API does not return is absent from the result.
C28_BatchedResolution ==
  /\ call.sync.stage = "fetch" =>
       /\ Len(call.sync.ids) >= 1 /\ Len(call.sync.ids) <= BatchSize
  /\ Len(sy.ids) <= Len(sy.newIds)
  /\ sy.ids = SubSeq(sy.newIds, 1, Len(sy.ids))
  /\ hist.netRequests = CeilDiv(Len(sy.ids), BatchSize)
  /\ BatchesDone =>
       /\ sy.ids = sy.newIds
       /\ hist.netRequests = (Len(sy.newIds) + BatchSize - 1) \div BatchSize
       /\ Len(sy.newIds) = 0 => hist.netRequests = 0
       /\ DOMAIN sy.newDetails = {v \in Range(sy.newIds) : BatchReturned(v)}

\* 101 ids took three calls, and an id that was not returned has no entry
C28_ThreeBatches ==
  /\ BatchesDone
  /\ Len(sy.newIds) = 2 * BatchSize + 1
  /\ hist.netRequests = 3 /\ hist.okResponses = 3
  /\ 3 \notin DOMAIN sy.newDetails /\ 2 * BatchSize + 1 \in DOMAIN sy.newDetails

-----------------------------------------------------------------------------
(* Properties of the day of the usage counter *)

\* the offsets of the caller's clock from UTC, in minutes
UtcOffsets == {0 - DefaultExpiresIn, 0, DefaultExpiresIn}

\* the caller's calendar day under an offset
LocalDay(offset) == (now + offset) \div MinutesPerDay

\* C29: the usage counter covers the caller's local calendar day: whatever
\* the caller's offset from UTC, the count the quota guard uses reads as 0 as
\* soon as the caller's local date differs from the stored date.
C29_LocalDayCounter ==
  \A offset \in UtcOffsets :
    (Has(store, "apiUsage") /\ store.apiUsage.date # LocalDay(offset)) =>
      getApiUsage.count = 0

\* what todayKey gives: the counter follows the UTC day
CounterFollowsUtcDay ==
  Has(store, "apiUsage") =>
    getApiUsage.count = IF store.apiUsage.date # LocalDay(0) THEN 0
                        ELSE store.apiUsage.count

-----------------------------------------------------------------------------
(* Properties of the persisted bundle *)

C31_IndexNotMerged ==
  /\ [][(pc.sync = "persist" /\ pc'.sync = "idle") =>
          /\ Has(store', "playlistCategories")
          /\ DOMAIN store'.playlistCategories = Range(sy.playlists) \ sy.failedPids
          /\ \A pid \in DOMAIN store'.playlistCategories :
                store'.playlistCategories[pid] = sy.cats[pid]]_vars
  /\ [](pc.sync = "details" /\ Has(store, "playlistCategories")
          /\ sy.playlists[sy.i] \notin DOMAIN store.playlistCategories
        => sy.newIds = sy.ids)

\* the second run resolves again both videos of p1, which the first run listed
\* and failed on although the stored index had them
C31_FailedResolvedAgain ==
  /\ hist.syncRuns = 2
  /\ pc.sync = "details"
  /\ sy.playlists[sy.i] = "p1"
  /\ "p1" \notin DOMAIN store.playlistCategories
  /\ sy.newIds = <<"v1", "v3">>

\* C32: for every non-empty item set, dominantCount is the greatest count of
\* the returned label-keyed frequency table and dominantCategory is a label
\* that has that count.
C32_DominantIsTopLabel ==
  (StatsDone /\ StatsOut.totalVideos > 0) =>
    LET table == StatsOut.categoryFrequency
    IN /\ \A i \in 1..Len(table) : table[i].v <= StatsOut.dominantCount
       /\ OHas(table, StatsOut.dominantCategory)
       /\ OGet(table, StatsOut.dominantCategory) = StatsOut.dominantCount

\* C33: the 100 % notification is sent in the step that completes the write
\* of the run's bundle, with the success answer, and a run that answers
\* failure has not sent it.
C33_FullBarAfterWrite ==
  /\ [][(100 \notin Range(progress) /\ 100 \in Range(progress')) =>
          /\ \A k \in BundleKeys :
                Has(store', k) /\ store'[k] = SyncBundle(sy)[k]
          /\ result'.msg = "SYNC_START" /\ result'.success]_vars
  /\ []((result.msg = "SYNC_START" /\ ~result.success) =>
          100 \notin Range(progress))

\* a run over the previously synced store has written its bundle and sent 100 %
C33_WrittenThenFull ==
  /\ pc.sync = "idle"
  /\ result.msg = "SYNC_START" /\ result.success
  /\ progress[Len(progress)] = 100
  /\ store.lastSync >= MinutesPerDay - TokenBuffer
  /\ store.playlistStats # PriorBundle["playlistStats"]

\* C34: a ranking request sends at most one remote request and writes no key
\* of the sync bundle: through any sequence of ranking requests the stored
\* stats, metadata, item index, global stats and sync time stay what the last
\* sync run stored.
C34_RankingNeverSyncs ==
  /\ [](\A k \in BundleKeys : Has(store, k) /\ store[k] = PriorBundle[k])
  /\ [](pc.reorder # "idle" => hist.netRequests - ro.requests0 <= 1)
  /\ [][(pc.reorder # "idle" /\ pc'.reorder = "idle") =>
          hist'.netRequests - ro.requests0 <= 1]_vars

\* two requests were answered with a ranking, each after its one remote call
C34_TwoRankings ==
  /\ hist.reorderRuns = 2
  /\ hist.netRequests = 2
  /\ pc.reorder = "idle"
  /\ result.msg = "GET_REORDERED_PLAYLISTS" /\ result.success
  /\ Len(result.reordered) = Len(PriorListing)

\* C35: getAuthToken returns the cached token only when the time is strictly
\* before the stored expiry; a token obtained from the consent flow is cached
\* with the expiry "time obtained + lifetime - one minute"; and a
\* non-interactive call never enters the consent flow: without an unexpired
\* cached token it returns null.
C35_TokenLifecycle ==
  /\ [][(auth.sync.stage = "read" /\ auth'.sync.stage = "done"
           /\ auth'.sync.token # Null) =>
          /\ Has(store, "oauthToken") /\ auth'.sync.token = store.oauthToken
          /\ now < store.oauthTokenExpiry]_vars
  /\ [][(auth.sync.stage = "flow" /\ auth'.sync.stage = "cache") =>
          auth'.sync.expiry = now + DefaultExpiresIn - TokenBuffer]_vars
  /\ [][(auth.sync.stage = "cache" /\ auth'.sync.stage = "done") =>
          /\ store'.oauthToken = auth.sync.token
          /\ auth'.sync.token = auth.sync.token
          /\ store'.oauthTokenExpiry = auth.sync.expiry]_vars
  /\ [](~auth.sync.interactive => auth.sync.stage \notin {"flow", "cache"})
  /\ [][(~auth.sync.interactive /\ auth.sync.stage = "read"
           /\ auth'.sync.stage = "done"
           /\ ~(Has(store, "oauthToken") /\ now < store.oauthTokenExpiry)) =>
          auth'.sync.token = Null]_vars

\* a non-interactive call at the very minute the cached token expires got null
C35_NullAtExpiry ==
  /\ auth.sync.stage = "done"
  /\ ~auth.sync.interactive
  /\ auth.sync.token = Null
  /\ Has(store, "oauthToken")
  /\ store.oauthTokenExpiry = now

\* the listing call in flight returned its last page and the listing is empty
EmptyListingReturned ==
  /\ pc.sync \in {"listUser", "listChannel"}
  /\ call.sync.stage = "done"
  /\ call.sync.nextPageToken = 0
  /\ sy.all \o call.sync.items = <<>>

\* C36: when the listing returns no playlist, the run answers failure at once:
\* no playlistItems or videos call was or is made for any playlist, and the
\* stored bundle is the one the run found.
C36_EmptyListingFails ==
  /\ [][(EmptyListingReturned /\ (pc' # pc \/ sy' # sy)) =>
          /\ pc'.sync = "idle"
          /\ result' = Failure("SYNC_START", "No playlists found.")
          /\ call'.sync = NoCall
          /\ sy.log = EmptyMap /\ sy.i = 0
          /\ BundleOf(store') = sy.bundle0]_vars
  /\ [](result.error = "No playlists found." =>
          ~result.success /\ pc.sync = "idle" /\ 100 \notin Range(progress))

\* the only public playlist was deleted: the key-based run found nothing and
\* the bundle of the earlier run is still stored
C36_NothingListed ==
  /\ result = Failure("SYNC_START", "No playlists found.")
  /\ remotePlaylists = <<"p2">>
  /\ \A k \in BundleKeys : Has(store, k) /\ store[k] = PriorBundle[k]

\* the invocations of handleModalOpen that passed the guard and have not returned
PastGuard == {i \in 1..Len(tab.inv) : tab.inv[i].stage # "done"}

\* C37: at most one handleModalOpen invocation is past the processing guard at
\* any time, whatever the order of observer callbacks, responses and
\* navigations, and the container is reordered at most once between two
\* navigations.
C37_OneAtATime ==
  /\ Cardinality(PastGuard) <= 1
  /\ tab.reorders <= 1

\* what holds instead: while no navigation has happened, one invocation at most
\* is past the guard and the container is reordered once at most
OneAtATimeUntilNavigation ==
  tab.navs = 0 => (Cardinality(PastGuard) <= 1 /\ tab.reorders <= 1)

\* the titles of the ranked playlists with a positive score
Promoted(reordered) ==
  {reordered[k].title : k \in {j \in 1..Len(reordered) : reordered[j].score > 0}}

\* C38: reorderDOM leaves in the container a permutation of the items it was
\* given: each exactly once, those whose title is that of a ranked playlist
\* with score > 0 before all the others, and each of the two groups in the
\* order the items were given in.
C38_StablePartition ==
  [][\A response \in {SuccessResponse(r) : r \in DomRankings} :
       ModalResponse(1, response) =>
         LET items == tab.inv[1].items
             out == tab'.children
             pos(list, e) == CHOOSE i \in 1..Len(list) : list[i] = e
             top(e) == e.title # Null /\ e.title \in Promoted(response.reordered)
         IN /\ Len(out) = Len(items)
            /\ Range(out) = Range(items)
            /\ \A e, f \in Range(items) :
                 /\ (top(e) /\ ~top(f)) => pos(out, e) < pos(out, f)
                 /\ (top(e) = top(f) /\ pos(items, e) < pos(items, f))
                      => pos(out, e) < pos(out, f)]_vars

\* the third item, the only one of a promoted title, went first and the two
\* others, one of them untitled, kept their order
C38_LastPromoted ==
  /\ tab.inv = <<[stage |-> "done",
                  items |-> <<Item(1, "b"), Item(2, Null), Item(3, "a")>>]>>
  /\ tab.children = <<Item(3, "a"), Item(1, "b"), Item(2, Null)>>

====
